---- MODULE Spec2Model ----
(***************************************************************************)
(* Trade execution core of the Jupiter DEX engine:                         *)
(*   JupiterAdapter (execution/adapters/jupiter_adapter.py) and            *)
(*   SolanaClient   (execution/solana_client.py).                          *)
(*                                                                         *)
(* The adapter is driven by one caller at a time (the tick loop is         *)
(* single-threaded cooperative), so at most one adapter call is active.    *)
(* A call is split at its await points (quote, swap build, submit, status  *)
(* poll, settle delay) because the chain advances while the call is        *)
(* suspended.                                                              *)
(*                                                                         *)
(* Optional values are sets: {} is Python's None, {v} is the value v.      *)
(* A transaction signature is the index of the InflightIntent that sent    *)
(* it; the sentinel string "pending" is {0}.                               *)
(*                                                                         *)
(* The clock advances in steps of one cooldown window.  Amounts are        *)
(* integers (token base units and quote units); the inputs are chosen so   *)
(* that notional / price is exact.                                         *)
(*                                                                         *)
(* Init is the adapter after __init__ with a config object that carries    *)
(* the JupiterConfig fields (and the slippage_bps attribute __init__       *)
(* logs).                                                                  *)
(*                                                                         *)
(* The tick engine (jupiter_dex_engine_v1_lite.py: JupiterDexEngine with   *)
(* its PriceOracle and TransactionExecutor, and the positions of           *)
(* strategies/jupiter_rsi_bands_strategy.py) is the second entry point of  *)
(* the repository.  It has its own Jupiter client and its own executor     *)
(* and never calls the adapter, and the adapter never calls it: a process  *)
(* runs one of the two, which `deployed` records.  tick() is split at its  *)
(* await points; time passes while a task is suspended.  Prices are in     *)
(* thousandths of a USDC, SOL balances in hundredths of a SOL.             *)
(***************************************************************************)
EXTENDS Integers, Sequences, FiniteSets, TLC

VARIABLES
    pairState,      \* JupiterAdapter._pair_states
    exit_only_mode, \* JupiterAdapter._exit_only_mode
    call,           \* the active adapter call and its position (locals of enter/exit/execute_with_ladder)
    result,         \* what the last finished adapter call returned (or that it raised)
    intents,        \* SolanaClient._inflight_intents, in creation order
    chain,          \* the chain's view of every transaction that was sent
    now,            \* wall clock, seconds
    deployed,       \* which entry point this process runs: "adapter" or "engine"
    confirm_timeout, \* SolanaClient.confirm_timeout, seconds
    state,          \* JupiterDexEngine.state (EngineState)
    consecutive_errors, \* JupiterDexEngine._consecutive_errors
    tick_lock,      \* JupiterDexEngine._tick_lock: the task holding it, 0 when free
    tasks,          \* callers of JupiterDexEngine.tick: "idle", "waiting" (for the lock) or "body"
    tick,           \* locals of the running tick body, and what the last tick did
    pair_states,    \* JupiterDexEngine._pair_states (inflight flag per pair)
    prices,         \* JupiterDexEngine._prices
    cache,          \* PriceOracle._cache
    positions,      \* JupiterRSIBandsStrategy.positions: the pairs, in insertion order
    dry_run,        \* EngineConfig.dry_run
    orders,         \* OrderStateMachine.orders: the status of each tracked order
    fsm_result,     \* what the last call on the OrderStateMachine returned or raised
    hybrid,         \* HybridMarketDataService with its two adapters
    price_oracle    \* a PriceOracle with its backoff deadlines, the event loop's clock and the last get_price call

adapter_vars == <<pairState, exit_only_mode, call, result, intents, chain, now>>

engine_vars == <<state, consecutive_errors, tick_lock, tasks, tick, pair_states,
                 prices, cache, positions, dry_run>>

service_vars == <<orders, fsm_result, hybrid, price_oracle>>

vars == <<adapter_vars, deployed, confirm_timeout, service_vars, engine_vars>>

----------------------------------------------------------------------------
(* Bounds of the model *)

MaxIntents == 2     \* execute_with_reconcile calls in one run
MaxTime == 1        \* times the clock may advance (by one cooldown window)
MaxFailures == 4    \* exhausted ladders counted per side
MaxErrors == 6      \* value up to which the engine's consecutive-error counter is followed
MaxAge == 2         \* price ages are followed up to this many TTLs

(* Program constants *)

max_attempts == 4               \* JupiterConfig.max_attempts
failure_threshold == 4          \* JupiterConfig.failure_threshold
failure_cooldown_seconds == 120 \* JupiterConfig.failure_cooldown_seconds
max_price_impact_bps == 100     \* JupiterConfig.max_price_impact_bps
reconcile_tolerance_pct == 10   \* SolanaClient.reconcile_tolerance_pct (0.10), in percent
default_confirm_timeout == 60   \* SolanaClient.__init__: confirm_timeout default
price_ttl_seconds == 10         \* EngineConfig.price_ttl_seconds
confirm_timeout_seconds == 60   \* EngineConfig.confirm_timeout_seconds
cfg_min_sol_reserve == 5        \* EngineConfig.min_sol_reserve (0.05 SOL), in hundredths of a SOL
max_consecutive_errors == 5     \* EngineConfig.max_consecutive_errors
max_concurrent_positions == 3   \* JupiterRSIBandsConfig.max_concurrent_positions
min_sol_reserve == 10           \* JupiterConfig.min_sol_reserve (0.10 SOL), in hundredths of a SOL

Pairs == {"SOL/USDC"}
Prices == {2}           \* prices a caller passes to enter / exit (positive)
Notionals == {4}        \* notional a caller passes to enter (positive)

\* wallet balances at start: every base token, and USDC
InitialBalances == [token |-> 0, usdc |-> 8]

None == {}
Some(v) == {v}
Pending == {0}
Val(o) == CHOOSE v \in o : TRUE
IsRealSig(m) == m # None /\ m # Pending

----------------------------------------------------------------------------
(* PairState *)

NewPairState ==
    [position_state |-> "FLAT",
     entry_price |-> None,
     size_base |-> None,
     inflight_buy_signature |-> None,
     inflight_sell_signature |-> None,
     buy_cooldown_until |-> None,
     sell_cooldown_until |-> None,
     buy_consecutive_failures |-> 0,
     sell_consecutive_failures |-> 0]

is_buy_in_cooldown(s, t) ==
    IF s.buy_cooldown_until = None THEN FALSE ELSE t < Val(s.buy_cooldown_until)

is_sell_in_cooldown(s, t) ==
    IF s.sell_cooldown_until = None THEN FALSE ELSE t < Val(s.sell_cooldown_until)

record_buy_failure(s, t) ==
    LET n == s.buy_consecutive_failures + 1 IN
    IF n >= failure_threshold
    THEN [s EXCEPT !.buy_consecutive_failures = n,
                   !.buy_cooldown_until = Some(t + failure_cooldown_seconds)]
    ELSE [s EXCEPT !.buy_consecutive_failures = n]

record_sell_failure(s, t) ==
    LET n == s.sell_consecutive_failures + 1 IN
    IF n >= failure_threshold
    THEN [s EXCEPT !.sell_consecutive_failures = n,
                   !.sell_cooldown_until = Some(t + failure_cooldown_seconds)]
    ELSE [s EXCEPT !.sell_consecutive_failures = n]

reset_buy_failures(s) ==
    [s EXCEPT !.buy_consecutive_failures = 0, !.buy_cooldown_until = None]

reset_sell_failures(s) ==
    [s EXCEPT !.sell_consecutive_failures = 0, !.sell_cooldown_until = None]

----------------------------------------------------------------------------
(* Gating.  A gate is [ok, reason, raises]: raises is TRUE when evaluating *)
(* the gate raises instead of returning.                                   *)

Gate(ok, reason) == [ok |-> ok, reason |-> reason, raises |-> FALSE]
GateRaises(exc) == [ok |-> FALSE, reason |-> exc, raises |-> TRUE]

\* variant: the inflight-buy check is missing
can_enter_without_inflight_check(s, eom, t) ==
    IF eom THEN Gate(FALSE, "exit_only_mode")
    ELSE IF s.position_state = "OPEN" THEN Gate(FALSE, "position_open")
    ELSE IF s.position_state = "EXIT_ONLY" THEN Gate(FALSE, "pair_exit_only")
    ELSE IF is_buy_in_cooldown(s, t) THEN Gate(FALSE, "buy_cooldown_until")
    ELSE Gate(TRUE, "None")

\* variant: the buy cooldown is not looked at
can_enter_without_cooldown_check(s, eom, t) ==
    IF eom THEN Gate(FALSE, "exit_only_mode")
    ELSE IF s.position_state = "OPEN" THEN Gate(FALSE, "position_open")
    ELSE IF s.position_state = "EXIT_ONLY" THEN Gate(FALSE, "pair_exit_only")
    ELSE IF s.inflight_buy_signature # None THEN Gate(FALSE, "inflight_buy")
    ELSE Gate(TRUE, "None")

can_enter(s, eom, t) ==
    IF eom THEN Gate(FALSE, "exit_only_mode")
    ELSE IF s.position_state = "OPEN" THEN Gate(FALSE, "position_open")
    ELSE IF s.position_state = "EXIT_ONLY" THEN Gate(FALSE, "pair_exit_only")
    ELSE IF s.inflight_buy_signature # None THEN Gate(FALSE, "inflight_buy")
    ELSE IF is_buy_in_cooldown(s, t) THEN Gate(FALSE, "buy_cooldown_until")
    ELSE Gate(TRUE, "None")

PositionStateMembers == {"FLAT", "OPEN", "EXIT_ONLY"}

\* variant: a buy cooldown blocks the exit as well
can_exit_blocked_by_buy_cooldown(s, t) ==
    IF is_buy_in_cooldown(s, t) THEN Gate(FALSE, "buy_cooldown_until")
    ELSE IF s.position_state = "FLAT" THEN Gate(FALSE, "no_position")
    ELSE IF "ENTERING_INFLIGHT" \notin PositionStateMembers THEN GateRaises("AttributeError")
    ELSE IF s.position_state = "ENTERING_INFLIGHT" THEN Gate(FALSE, "still_entering")
    ELSE IF s.inflight_sell_signature # None THEN Gate(FALSE, "inflight_sell")
    ELSE IF is_sell_in_cooldown(s, t) THEN Gate(FALSE, "sell_cooldown_until")
    ELSE Gate(TRUE, "None")

\* PositionState has no member ENTERING_INFLIGHT, so evaluating the comparison
\* on line 432 raises AttributeError for every pair that is not FLAT.
can_exit(s, t) ==
    IF s.position_state = "FLAT" THEN Gate(FALSE, "no_position")
    ELSE IF "ENTERING_INFLIGHT" \notin PositionStateMembers THEN GateRaises("AttributeError")
    ELSE IF s.position_state = "ENTERING_INFLIGHT" THEN Gate(FALSE, "still_entering")
    ELSE IF s.inflight_sell_signature # None THEN Gate(FALSE, "inflight_sell")
    ELSE IF is_sell_in_cooldown(s, t) THEN Gate(FALSE, "sell_cooldown_until")
    ELSE Gate(TRUE, "None")

----------------------------------------------------------------------------
(* Chain and RPC *)

Levels == {"notfound", "processed", "confirmed", "finalized"}

\* a transaction of an intent; "unsent": it never reached the node
NewTx(pair, side, base, quote, sent) ==
    [pair |-> pair, side |-> side, base |-> base, quote |-> quote,
     level |-> IF sent THEN "notfound" ELSE "unsent", err |-> FALSE]

\* the transaction was executed by the chain and changed balances
TookEffect(tx) == tx.level \in {"processed", "confirmed", "finalized"} /\ ~tx.err

RECURSIVE TokenDeltaUpTo(_, _, _)
TokenDeltaUpTo(ch, pair, n) ==
    IF n = 0 THEN 0
    ELSE TokenDeltaUpTo(ch, pair, n - 1) +
         (IF TookEffect(ch[n]) /\ ch[n].pair = pair
          THEN (IF ch[n].side = "BUY" THEN ch[n].base ELSE 0 - ch[n].base)
          ELSE 0)

RECURSIVE UsdcDeltaUpTo(_, _)
UsdcDeltaUpTo(ch, n) ==
    IF n = 0 THEN 0
    ELSE UsdcDeltaUpTo(ch, n - 1) +
         (IF TookEffect(ch[n])
          THEN (IF ch[n].side = "BUY" THEN 0 - ch[n].quote ELSE ch[n].quote)
          ELSE 0)

\* SolanaClient.get_token_balance / get_usdc_balance: None when the RPC call fails
get_token_balance(ch, pair, rpc_ok) ==
    IF rpc_ok THEN Some(InitialBalances.token + TokenDeltaUpTo(ch, pair, Len(ch))) ELSE None

get_usdc_balance(ch, rpc_ok) ==
    IF rpc_ok THEN Some(InitialBalances.usdc + UsdcDeltaUpTo(ch, Len(ch))) ELSE None

NoStatus == [found |-> FALSE, confirmed |-> FALSE, finalized |-> FALSE, error |-> FALSE]

\* SolanaClient.get_signature_status: None when the RPC call fails or the
\* signature is not known to the node
get_signature_status(ch, sig, rpc_ok) ==
    IF ~rpc_ok \/ ch[sig].level \in {"unsent", "notfound"} THEN NoStatus
    ELSE [found |-> TRUE,
          confirmed |-> ch[sig].level \in {"confirmed", "finalized"},
          finalized |-> ch[sig].level = "finalized",
          error |-> ch[sig].err]

----------------------------------------------------------------------------
(* InflightIntent *)

\* The record kept in _inflight_intents: the fields later steps read, and
\* cid, the adapter call that created it.  The balance snapshots live in the
\* running call (BalancesOf) until the reconcile step has used them.
NewIntent(pair, side, expected_delta, cid) ==
    [signature |-> None, pair |-> pair, side |-> side,
     expected_delta |-> expected_delta, outcome |-> "None", cid |-> cid]

\* the intent with its four balance snapshots, as matches_expected_deltas reads it
BalancesOf(intent, pre_token, pre_usdc, post_token, post_usdc) ==
    [side |-> intent.side, expected_delta |-> intent.expected_delta,
     pre_balance_token |-> pre_token, pre_balance_usdc |-> pre_usdc,
     post_balance_token |-> post_token, post_balance_usdc |-> post_usdc]

token_delta(i) ==
    IF i.pre_balance_token # None /\ i.post_balance_token # None
    THEN Some(Val(i.post_balance_token) - Val(i.pre_balance_token)) ELSE None

usdc_delta(i) ==
    IF i.pre_balance_usdc # None /\ i.post_balance_usdc # None
    THEN Some(Val(i.post_balance_usdc) - Val(i.pre_balance_usdc)) ELSE None

Abs(x) == IF x < 0 THEN 0 - x ELSE x

\* abs(token_d) >= expected_abs - expected_abs * tolerance_pct, scaled by 100
matches_expected_deltas(i, tolerance_pct) ==
    LET token_d == token_delta(i)
        usdc_d == usdc_delta(i)
        expected_abs == Abs(i.expected_delta)
    IN  IF token_d = None \/ usdc_d = None THEN FALSE
        ELSE IF i.side = "SELL"
             THEN /\ Val(token_d) < 0
                  /\ 100 * Abs(Val(token_d)) >= expected_abs * (100 - tolerance_pct)
                  /\ Val(usdc_d) > 0
             ELSE /\ Val(token_d) > 0
                  /\ 100 * Val(token_d) >= expected_abs * (100 - tolerance_pct)
                  /\ Val(usdc_d) < 0

\* The RECONCILE_DELTAS log line formats token_delta with the format spec
\* ".6f if token_delta else 'None'": float.__format__ rejects it (ValueError)
\* and None.__format__ rejects every non-empty spec (TypeError).
reconcile_deltas_log(token_d) ==
    IF token_d = None THEN "TypeError" ELSE "ValueError"

----------------------------------------------------------------------------
(* Calls and results *)

IdleCall ==
    [op |-> "idle", pair |-> "None", side |-> "None", pc |-> "idle",
     attempt |-> 0, price |-> 0, size |-> 0, quote_numeric |-> TRUE,
     price_impact_bps |-> 0,
     pre_token |-> None, pre_usdc |-> None, reconcile |-> "None",
     runs |-> 0, failures |-> 0, cid |-> 0,
     keep_sol_reserve |-> TRUE, todo |-> <<>>, results |-> <<>>,
     sol_position |-> None, sol_balance |-> None, sol_exit |-> "None"]

NoResult ==
    [op |-> "None", pair |-> "None", outcome |-> "NONE", error |-> "None",
     attempt_number |-> 0, consumed |-> 0, runs |-> 0, failures |-> 0,
     cid |-> 0, reconcile |-> "None",
     keep_sol_reserve |-> TRUE, results |-> <<>>, sol_balance |-> None,
     sol_exit |-> "None"]

\* TradeResult of the call c.  Besides the fields of the TradeResult it
\* records what the ladder did for the intent: consumed (attempt - 1), runs
\* (loop iterations started), failures (definite failures seen: quote
\* failure, swap-build failure, safe-to-retry transaction outcome) and
\* reconcile (what the reconcile step of the last attempt was given; "None":
\* it did not run)
TradeResult(c, outcome, error, attempt_number) ==
    [op |-> c.op, pair |-> c.pair, outcome |-> outcome, error |-> error,
     attempt_number |-> attempt_number, consumed |-> c.attempt - 1,
     runs |-> c.runs, failures |-> c.failures, cid |-> c.cid,
     reconcile |-> c.reconcile,
     keep_sol_reserve |-> c.keep_sol_reserve, results |-> c.results,
     sol_balance |-> c.sol_balance, sol_exit |-> c.sol_exit]

\* the running call after it has seen one more definite failure
SawFailure(c) == [c EXCEPT !.failures = @ + 1]

\* the InflightIntents the call cid created
IntentsOf(its, cid) == {i \in 1..Len(its) : its[i].cid = cid}

SetMarker(s, side, m) ==
    IF side = "BUY" THEN [s EXCEPT !.inflight_buy_signature = m]
    ELSE [s EXCEPT !.inflight_sell_signature = m]

Marker(s, side) ==
    IF side = "BUY" THEN s.inflight_buy_signature ELSE s.inflight_sell_signature

\* enter(), lines 820-852: the transition applied once the ladder returned
EnterTail(s, c, outcome) ==
    IF outcome = "SUCCESS"
    THEN [reset_buy_failures(s) EXCEPT
            !.position_state = "OPEN",
            !.entry_price = Some(c.price),
            !.size_base = Some(c.size),
            !.inflight_buy_signature = None]
    ELSE s

\* exit(), lines 906-948
ExitTail(s, c, outcome) ==
    IF outcome = "SUCCESS"
    THEN [reset_sell_failures(s) EXCEPT
            !.position_state = "FLAT",
            !.entry_price = None,
            !.size_base = None,
            !.inflight_sell_signature = None]
    ELSE IF outcome = "FAILURE" /\ s.sell_consecutive_failures >= failure_threshold
    THEN [s EXCEPT !.position_state = "EXIT_ONLY"]
    ELSE s

\* execute_with_ladder, lines 745-757: every attempt was consumed
LadderExhausted(s, side, t) ==
    IF side = "BUY"
    THEN [record_buy_failure(s, t) EXCEPT !.inflight_buy_signature = None]
    ELSE [record_sell_failure(s, t) EXCEPT !.inflight_sell_signature = None]

\* the while condition of execute_with_ladder
LadderContinues(attempt) == attempt <= max_attempts

\* the ladder returns a TradeResult and enter / exit applies its transition;
\* s is the pair's state when the ladder returns
Return(s, c, outcome, error, attempt_number) ==
    /\ pairState' = [pairState EXCEPT ![c.pair] =
                        IF c.op = "enter" THEN EnterTail(s, c, outcome)
                        ELSE ExitTail(s, c, outcome)]
    /\ result' = TradeResult(c, outcome, error, attempt_number)
    /\ call' = IdleCall

\* an exception leaves the ladder and enter / exit; s is the pair's state
\* at the raise
Raise(s, c, exc) ==
    /\ pairState' = [pairState EXCEPT ![c.pair] = s]
    /\ result' = TradeResult(c, "RAISED", exc, c.attempt)
    /\ call' = IdleCall

\* variant: "continue" without "attempt += 1"
ConsumeKeepsAttempt(s, c) ==
    /\ pairState' = [pairState EXCEPT ![c.pair] = s]
    /\ call' = [c EXCEPT !.pc = "quote"]
    /\ result' = result

\* "attempt += 1; continue": the attempt is consumed, then either the next
\* iteration or the exhausted path
Consume(s, c) ==
    LET c2 == [c EXCEPT !.attempt = @ + 1, !.price_impact_bps = 0] IN
    IF LadderContinues(c2.attempt)
    THEN /\ pairState' = [pairState EXCEPT ![c.pair] = s]
         /\ call' = [c2 EXCEPT !.pc = "quote"]
         /\ result' = result
    ELSE Return(LadderExhausted(s, c.side, now), c2, "FAILURE",
                "all_attempts_exhausted", max_attempts)

----------------------------------------------------------------------------
(* Inputs from the aggregator *)

NoQuote == [present |-> FALSE, impact_bps |-> 0, in_amount_numeric |-> TRUE]

\* a quote carries inAmount, outAmount, routePlan (get_quote checks only that
\* they are present) and priceImpactPct
Quotes ==
    {NoQuote} \cup
    [present : {TRUE}, impact_bps : {max_price_impact_bps, max_price_impact_bps + 1},
     in_amount_numeric : BOOLEAN]

\* SolanaClient.execute, lines 431-479, up to the send: the TxOutcome it
\* returns without a signature, or "SENT" (send_transaction returned one).
\* "FAILED_VERIFIED" is the except branch around send_transaction.
ExecuteOutcomes ==
    {"DESERIALIZE_FAILED", "SIGN_FAILED", "SEND_FAILED", "FAILED_VERIFIED", "SENT"}

\* whether the node can have accepted the transaction.  send_transaction
\* that raises (a request timeout, a dropped connection: _classify_error,
\* lines 410-413) may or may not have delivered it.
Delivered(out) ==
    IF out = "SENT" THEN {TRUE}
    ELSE IF out = "FAILED_VERIFIED" THEN BOOLEAN
    ELSE {FALSE}

----------------------------------------------------------------------------
(* Tick engine: JupiterDexEngine, PriceOracle, TransactionExecutor *)

\* EngineConfig.pairs, in configuration order
cfg_pairs == <<"JUP/USDC", "SOL/USDC">>

EnginePairs == {cfg_pairs[k] : k \in 1..Len(cfg_pairs)}

Tasks == {1, 2}     \* concurrent callers of tick()

\* time that passes while a task is suspended at an await
Durations == {0, price_ttl_seconds}

\* a float as the price feeds can deliver it
Finite(v) == [kind |-> "finite", v |-> v]

NaNPrice == [kind |-> "nan", v |-> 0]

InfPrice == [kind |-> "inf", v |-> 0]

\* what a price source delivers for a pair; None is a request that failed
\* (HTTP error, timeout, bad schema) or a source that is skipped (no API
\* key, rate-limit backoff)
RawPrices == {Finite(0), Finite(500), Finite(2000000), Finite(20000000), NaNPrice, InfPrice}

FetchResults == {None} \cup {Some(x) : x \in RawPrices}

\* PriceOracle.PRICE_BOUNDS
PRICE_BOUNDS ==
    [p \in {"SOL/USDC", "JUP/USDC"} |->
        IF p = "SOL/USDC" THEN [low |-> 1000, high |-> 10000000]
        ELSE [low |-> 1, high |-> 1000000]]

\* math.isfinite
isfinite(x) == x.kind = "finite"

\* PriceOracle._validate_price_bounds (the boolean of the returned pair)
_validate_price_bounds(price, pair) ==
    IF isfinite(price) /\ price.v <= 0 THEN FALSE
    ELSE IF ~isfinite(price) THEN FALSE
    ELSE IF pair \in DOMAIN PRICE_BOUNDS /\ price.v < PRICE_BOUNDS[pair].low THEN FALSE
    ELSE IF pair \in DOMAIN PRICE_BOUNDS /\ price.v > PRICE_BOUNDS[pair].high THEN FALSE
    ELSE TRUE

\* PriceOracle._fetch_helius_validated / _fetch_jupiter_validated: the price,
\* or None when the request failed or the price is out of bounds
_fetch_validated(fetched, pair) ==
    IF fetched = None THEN None
    ELSE IF ~_validate_price_bounds(Val(fetched), pair) THEN None
    ELSE Some(Val(fetched).v)

\* PricePoint: price and age_seconds (now - timestamp)
PricePoint(price, age) == [price |-> price, age |-> age]

\* PricePoint.is_valid
is_valid(point, ttl_seconds) == point.age <= ttl_seconds /\ point.price > 0

\* PriceOracle.get_price: the returned point, whether it is the stale-cache
\* return, and the cache entry afterwards
get_price(cached, helius, jupiter, pair) ==
    LET h == _fetch_validated(helius, pair)
        j == _fetch_validated(jupiter, pair)
    IN  IF cached # None /\ is_valid(Val(cached), price_ttl_seconds)
        THEN [point |-> cached, stale_cache |-> FALSE, cache |-> cached]
        ELSE IF h # None
        THEN [point |-> Some(PricePoint(Val(h), 0)), stale_cache |-> FALSE,
              cache |-> Some(PricePoint(Val(h), 0))]
        ELSE IF j # None
        THEN [point |-> Some(PricePoint(Val(j), 0)), stale_cache |-> FALSE,
              cache |-> Some(PricePoint(Val(j), 0))]
        ELSE IF cached # None
        THEN [point |-> cached, stale_cache |-> TRUE, cache |-> cached]
        ELSE [point |-> None, stale_cache |-> FALSE, cache |-> cached]

\* every PricePoint grows older by d seconds
Older(points, d) ==
    [p \in DOMAIN points |->
        IF points[p] = None THEN None
        ELSE LET a == Val(points[p]).age + d
                 cap == MaxAge * price_ttl_seconds
             IN  Some([Val(points[p]) EXCEPT !.age = IF a > cap THEN cap ELSE a])]

\* variant: a balance that could not be fetched counts as sufficient
_check_sol_reserve_fail_open(bal) ==
    IF bal = None THEN TRUE
    ELSE IF Val(bal) < cfg_min_sol_reserve THEN FALSE
    ELSE TRUE

\* JupiterDexEngine._check_sol_reserve: bal is the balance get_balance
\* returned, None when the RPC call raised
_check_sol_reserve(bal) ==
    IF bal = None THEN FALSE
    ELSE IF Val(bal) < cfg_min_sol_reserve THEN FALSE
    ELSE TRUE

\* JupiterRSIBandsStrategy.can_enter
strategy_can_enter(pair, pos) ==
    IF \E k \in 1..Len(pos) : pos[k] = pair THEN FALSE
    ELSE Len(pos) < max_concurrent_positions

\* JupiterRSIBandsStrategy.open_position
open_position(pos, pair) ==
    IF \E k \in 1..Len(pos) : pos[k] = pair THEN pos ELSE Append(pos, pair)

\* JupiterRSIBandsStrategy.close_position
close_position(pos, pair) == SelectSeq(pos, LAMBDA q : q # pair)

\* TransactionExecutor._classify_error, by what the error message contains
_classify_error(error_msg) ==
    IF error_msg = "blockhash" THEN "BLOCKHASH_EXPIRED"
    ELSE IF error_msg = "simulation" THEN "SIMULATION_FAILED"
    ELSE "FAILED"

ErrorMessages == {"blockhash", "simulation", "other"}

\* one element of get_signature_statuses: found, err (None or the message) and
\* the confirmation level as str() renders it
SignatureStatuses ==
    {[found |-> FALSE, err |-> None, conf |-> "None"]}
    \cup [found : {TRUE}, err : {None, Some("other")},
          conf : {"processed", "confirmed", "finalized"}]

NoSignatureStatus == [found |-> FALSE, err |-> None, conf |-> "None"]

\* variant: a transaction that was only processed counts as a success
ExecDecisionAcceptsProcessed(st) ==
    IF st.found /\ st.err # None THEN _classify_error(Val(st.err))
    ELSE IF st.found /\ st.conf \in {"processed", "confirmed", "finalized"} THEN "SUCCESS"
    ELSE "WAIT"

\* TransactionExecutor.execute, lines 859-886: what one status poll decides
\* ("WAIT" = sleep and poll again)
ExecDecision(st) ==
    IF st.found /\ st.err # None THEN _classify_error(Val(st.err))
    ELSE IF st.found /\ st.conf \in {"confirmed", "finalized"} THEN "SUCCESS"
    ELSE "WAIT"

\* what send_transaction and the steps before it can do
SendOutcomes ==
    {[kind |-> k, msg |-> "other"] : k \in {"deserialize_failed", "sign_failed",
                                             "no_signature", "sent"}}
    \cup {[kind |-> "send_error", msg |-> m] : m \in ErrorMessages}

\* PairState of the engine, lines 936-948: the inflight flag; no field holds
\* a signature
NewEnginePairState == [inflight |-> FALSE]

NoTrade == [action |-> "None", pair |-> "None"]

NoDispatch == [action |-> "None", pair |-> "None", price |-> 0, age |-> 0,
               stale_cache |-> FALSE]

\* one element of result["trades"]: the dict _execute_entry / _execute_exit
\* returns, with its action, pair and success fields
TradeRecord(action, pair, success) ==
    [action |-> action, pair |-> pair, success |-> success]

\* the tick body's locals; the fields from started_state on record what the
\* tick observed (started_state to stale_cache are kept after the tick until
\* the next one starts)
IdleTick ==
    [pc |-> "idle", i |-> 0, snapshot |-> <<>>, all_valid |-> TRUE,
     errors |-> <<>>, trades |-> <<>>, trade |-> NoTrade,
     started_state |-> "None", skipped |-> FALSE,
     balance_fetched |-> FALSE, balance |-> None,
     polled |-> {}, valid |-> {}, stale_cache |-> {},
     dispatch |-> NoDispatch, entry_started |-> FALSE,
     last_status |-> NoSignatureStatus, tx_status |-> "None"]

\* variant: the entries loop runs before the exits loop
PhaseAfterEntriesFirst(phase) ==
    IF phase = "prices" THEN "entries"
    ELSE IF phase = "entries" THEN "exits"
    ELSE "end"

\* JupiterDexEngine.tick, lines 1169-1258: the order of the tick's phases
PhaseAfter(phase) ==
    IF phase = "prices" THEN "exits"
    ELSE IF phase = "exits" THEN "entries"
    ELSE "end"

\* loop heads of tick, lines 1178 and 1190: the exits loop iterates over a
\* copy of the positions taken when the loop starts
StartPhase(tk, phase, pos) ==
    [tk EXCEPT !.pc = phase, !.i = 1,
               !.snapshot = IF phase = "exits" THEN pos ELSE @]

RECURSIVE Settle(_, _)
\* where the body stands once the loops that are exhausted are left
Settle(tk, pos) ==
    IF tk.pc = "exits" /\ tk.i > Len(tk.snapshot)
    THEN Settle(StartPhase(tk, PhaseAfter("exits"), pos), pos)
    ELSE IF tk.pc = "entries" /\ tk.i > Len(cfg_pairs)
    THEN Settle(StartPhase(tk, PhaseAfter("entries"), pos), pos)
    ELSE tk

\* tick, lines 1258-1263: error tracking over result["errors"]
ErrorTracking(errors, st, ce) ==
    IF Len(errors) > 0
    THEN [consecutive_errors |-> ce + Len(errors),
          state |-> IF ce + Len(errors) >= max_consecutive_errors
                    THEN "PAUSED_EXEC_ERRORS" ELSE st]
    ELSE [consecutive_errors |-> ce, state |-> st]

\* leaving `async with self._tick_lock` (a return, or the end of the body)
Release(tk) ==
    /\ tick' = [tk EXCEPT !.pc = "idle", !.i = 0, !.snapshot = <<>>, !.trade = NoTrade,
                          !.trades = <<>>,
                          !.dispatch = NoDispatch, !.entry_started = FALSE,
                          !.last_status = NoSignatureStatus, !.tx_status = "None"]
    /\ tick_lock' = 0
    /\ tasks' = [tasks EXCEPT ![tick_lock] = "idle"]

\* the body goes on after a loop iteration: the next iteration, the next
\* loop, or the tail of tick (lines 1258-1276) and the release of the lock
Proceed(tk, pos, ce) ==
    LET n == Settle(tk, pos)
        e == ErrorTracking(n.errors, state, ce)
    IN  IF n.pc = "end"
        THEN /\ Release(n)
             /\ state' = e.state
             /\ consecutive_errors' = e.consecutive_errors
        ELSE /\ tick' = n
             /\ state' = state
             /\ consecutive_errors' = ce
             /\ UNCHANGED <<tick_lock, tasks>>

----------------------------------------------------------------------------
(* OrderStateMachine (application/services/order_state_machine.py) *)

OrderStatus == {"NEW", "PENDING", "SUBMITTED", "PARTIALLY_FILLED", "FILLED",
                "CANCELED", "REJECTED", "EXPIRED"}

OrderIds == {"o1", "o2"}

\* self._transitions.get(current, set()), lines 16-26 and 37
_transitions(current) ==
    IF current = "NEW" THEN {"PENDING", "REJECTED", "CANCELED"}
    ELSE IF current = "PENDING" THEN {"SUBMITTED", "REJECTED", "CANCELED"}
    ELSE IF current = "SUBMITTED" THEN {"FILLED", "PARTIALLY_FILLED", "REJECTED", "CANCELED"}
    ELSE IF current = "PARTIALLY_FILLED" THEN {"FILLED", "CANCELED"}
    ELSE {}

\* OrderStateMachine.can_transition, lines 32-38; os is self.orders
can_transition(os, order_id, to_state) ==
    IF os[order_id] = None THEN FALSE
    ELSE to_state \in _transitions(Val(os[order_id]))

NoFsmResult == [op |-> "None", order_id |-> "None", to_state |-> "None", outcome |-> "None"]

FsmResult(op, order_id, to_state, outcome) ==
    [op |-> op, order_id |-> order_id, to_state |-> to_state, outcome |-> outcome]

\* OrderStateMachine.add_order, lines 28-30; status is order.status
add_order(order_id, status) ==
    /\ orders' = [orders EXCEPT ![order_id] = Some(status)]
    /\ fsm_result' = FsmResult("add_order", order_id, status, "RETURNED")
    /\ UNCHANGED <<hybrid, price_oracle, adapter_vars, deployed, confirm_timeout, engine_vars>>

\* a caller evaluates can_transition(order_id, to_state)
CallCanTransition(order_id, to_state) ==
    /\ fsm_result' = FsmResult("can_transition", order_id, to_state,
                               IF can_transition(orders, order_id, to_state)
                               THEN "TRUE" ELSE "FALSE")
    /\ UNCHANGED <<orders, hybrid, price_oracle, adapter_vars, deployed, confirm_timeout, engine_vars>>

\* variant: the transition is applied whether it is allowed or not
transition_unchecked(order_id, to_state) ==
    /\ orders[order_id] # None
    /\ orders' = [orders EXCEPT ![order_id] = Some(to_state)]
    /\ fsm_result' = FsmResult("transition", order_id, to_state, "RETURNED")
    /\ UNCHANGED <<hybrid, price_oracle, adapter_vars, deployed, confirm_timeout, engine_vars>>

\* OrderStateMachine.transition, lines 40-50
transition(order_id, to_state) ==
    /\ IF ~can_transition(orders, order_id, to_state)
       THEN /\ fsm_result' = FsmResult("transition", order_id, to_state, "InvalidTransition")
            /\ orders' = orders
       ELSE /\ orders' = [orders EXCEPT ![order_id] = Some(to_state)]
            /\ fsm_result' = FsmResult("transition", order_id, to_state, "RETURNED")
    /\ UNCHANGED <<hybrid, price_oracle, adapter_vars, deployed, confirm_timeout, engine_vars>>

----------------------------------------------------------------------------
(* HybridMarketDataService (application/services/hybrid_market_data.py) *)

MaxCalls == 3           \* get_tick calls followed
CacheTtls == {0, 5}     \* cache_ttl_seconds: the default, and the value the tests use

\* lines 37-41: the cached tick is used
TickCacheHit(h) ==
    /\ h.tick_cache # None
    /\ h.cache_ttl > 0
    /\ Val(h.tick_cache).age < h.cache_ttl

\* HybridMarketDataService.get_tick, lines 35-46: on a cache miss the tick is
\* fetched from self.coingecko; self.polygon is never called, and an error
\* of the coingecko adapter propagates
get_tick ==
    /\ hybrid.gets < MaxCalls
    /\ hybrid' =
         IF TickCacheHit(hybrid)
         THEN [hybrid EXCEPT !.gets = @ + 1, !.returned = Val(hybrid.tick_cache).source]
         ELSE IF hybrid.coingecko_fail
         THEN [hybrid EXCEPT !.gets = @ + 1, !.coingecko_calls = @ + 1,
                             !.returned = "RAISED"]
         ELSE [hybrid EXCEPT !.gets = @ + 1, !.coingecko_calls = @ + 1,
                             !.tick_cache = Some([age |-> 0, source |-> "coingecko"]),
                             !.returned = "coingecko"]
    /\ UNCHANGED <<orders, fsm_result, price_oracle, adapter_vars, deployed,
                   confirm_timeout, engine_vars>>

\* time passes between two get_tick calls (datetime.utcnow(), line 36)
HybridSleep(d) ==
    /\ hybrid.tick_cache # None
    /\ Val(hybrid.tick_cache).age < d
    /\ hybrid' = [hybrid EXCEPT !.tick_cache = Some([Val(@) EXCEPT !.age = d])]
    /\ UNCHANGED <<orders, fsm_result, price_oracle, adapter_vars, deployed,
                   confirm_timeout, engine_vars>>

\* an adapter starts or stops failing
HybridAdapterFlips(adapter) ==
    /\ hybrid' = IF adapter = "polygon" THEN [hybrid EXCEPT !.polygon_fail = ~@]
                 ELSE [hybrid EXCEPT !.coingecko_fail = ~@]
    /\ UNCHANGED <<orders, fsm_result, price_oracle, adapter_vars, deployed,
                   confirm_timeout, engine_vars>>

----------------------------------------------------------------------------
(* PriceOracle.get_price with the per-source backoff *)

backoff_seconds == 60       \* _fetch_helius_validated / _fetch_jupiter_validated: time() + 60
MaxOracleTime == 140        \* the event loop's clock is followed up to this value

\* what a source answers: HTTP 429, any other answer that yields no
\* validated price (5xx, timeout, schema, bounds), or a validated price
SourceAnswers == {"429", "failed", "price"}

OraclePair == "SOL/USDC"
\* the validated price a source delivers (positive and within PRICE_BOUNDS)
OracleFetchedPrice == CHOOSE v \in Prices : TRUE

\* the cache entry d seconds later
OlderPoint(point, d) == Older([p \in {OraclePair} |-> point], d)[OraclePair]

\* the deadline after a source answered at time t
BackoffAfter(answer, t, until) == IF answer = "429" THEN t + backoff_seconds ELSE until

\* variant: the backoff deadlines are not looked at
oracle_get_price_ignoring_backoff(o, helius, hd, jupiter, jd) ==
    LET ask_helius == o.helius_api_key
        t1 == IF ask_helius THEN o.time + hd ELSE o.time
        after_helius ==
            [o EXCEPT !.gets = @ + 1, !.time = t1,
                      !.helius = IF ask_helius THEN helius ELSE "not_called",
                      !.jupiter = "not_called",
                      !.helius_backoff_until =
                          IF ask_helius THEN BackoffAfter(helius, t1, @) ELSE @]
        ask_jupiter == TRUE
        t2 == IF ask_jupiter THEN t1 + jd ELSE t1
        after_jupiter ==
            [after_helius EXCEPT
                 !.time = t2,
                 !.jupiter = IF ask_jupiter THEN jupiter ELSE "not_called",
                 !.jupiter_backoff_until =
                     IF ask_jupiter THEN BackoffAfter(jupiter, t2, @) ELSE @]
        fresh == Some(PricePoint(OracleFetchedPrice, 0))
    IN  IF o.cache # None /\ is_valid(Val(o.cache), price_ttl_seconds)
        THEN [o EXCEPT !.gets = @ + 1, !.helius = "not_called", !.jupiter = "not_called",
                       !.returned = "cached"]
        ELSE IF ask_helius /\ helius = "price"
        THEN [after_helius EXCEPT !.cache = fresh, !.returned = "helius"]
        ELSE IF ask_jupiter /\ jupiter = "price"
        THEN [after_jupiter EXCEPT !.cache = fresh, !.returned = "jupiter"]
        ELSE [after_jupiter EXCEPT
                  !.cache = OlderPoint(o.cache, t2 - o.time),
                  !.returned = IF o.cache # None THEN "stale_cache" ELSE "no_price"]

\* PriceOracle.get_price, lines 451-514, with _fetch_helius_validated and
\* _fetch_jupiter_validated: `now` is read once (line 471) and compared with
\* both deadlines; a request takes hd or jd seconds, and a 429 answer sets the
\* deadline from the clock at the answer (lines 375, 420)
oracle_get_price(o, helius, hd, jupiter, jd) ==
    LET ask_helius == o.helius_api_key /\ o.time >= o.helius_backoff_until
        t1 == IF ask_helius THEN o.time + hd ELSE o.time
        after_helius ==
            [o EXCEPT !.gets = @ + 1, !.time = t1,
                      !.helius = IF ask_helius THEN helius ELSE "not_called",
                      !.jupiter = "not_called",
                      !.helius_backoff_until =
                          IF ask_helius THEN BackoffAfter(helius, t1, @) ELSE @]
        ask_jupiter == o.time >= o.jupiter_backoff_until
        t2 == IF ask_jupiter THEN t1 + jd ELSE t1
        after_jupiter ==
            [after_helius EXCEPT
                 !.time = t2,
                 !.jupiter = IF ask_jupiter THEN jupiter ELSE "not_called",
                 !.jupiter_backoff_until =
                     IF ask_jupiter THEN BackoffAfter(jupiter, t2, @) ELSE @]
        fresh == Some(PricePoint(OracleFetchedPrice, 0))
    IN  IF o.cache # None /\ is_valid(Val(o.cache), price_ttl_seconds)
        THEN [o EXCEPT !.gets = @ + 1, !.helius = "not_called", !.jupiter = "not_called",
                       !.returned = "cached"]
        ELSE IF ask_helius /\ helius = "price"
        THEN [after_helius EXCEPT !.cache = fresh, !.returned = "helius"]
        ELSE IF ask_jupiter /\ jupiter = "price"
        THEN [after_jupiter EXCEPT !.cache = fresh, !.returned = "jupiter"]
        ELSE [after_jupiter EXCEPT
                  !.cache = OlderPoint(o.cache, t2 - o.time),
                  !.returned = IF o.cache # None THEN "stale_cache" ELSE "no_price"]

\* a caller awaits price_oracle.get_price(pair, ...)
OracleGetPrice(helius, hd, jupiter, jd) ==
    /\ price_oracle.gets < MaxCalls
    /\ price_oracle' = oracle_get_price(price_oracle, helius, hd, jupiter, jd)
    /\ UNCHANGED <<orders, fsm_result, hybrid, adapter_vars, deployed,
                   confirm_timeout, engine_vars>>

\* time passes between two get_price calls
OracleSleep(d) ==
    /\ price_oracle.time + d <= MaxOracleTime
    /\ price_oracle' = [price_oracle EXCEPT !.time = @ + d,
                                            !.cache = OlderPoint(@, d)]
    /\ UNCHANGED <<orders, fsm_result, hybrid, adapter_vars, deployed,
                   confirm_timeout, engine_vars>>

----------------------------------------------------------------------------
(* The services as constructed *)

\* HybridMarketDataService.__init__, lines 19-33, over two adapters as the
\* tests build them (FakeAdapter: fail, calls): polygon_adapter is the first
\* argument, coingecko_adapter the second.  gets counts the get_tick calls,
\* returned is the adapter whose tick the last call returned.
NewHybrid ==
    [cache_ttl |-> 0, tick_cache |-> None,
     polygon_fail |-> FALSE, coingecko_fail |-> FALSE,
     polygon_calls |-> 0, coingecko_calls |-> 0,
     gets |-> 0, returned |-> "None"]

\* PriceOracle.__init__, lines 286-300, for one pair: the API key, the cache
\* entry, the two backoff deadlines; time is the event loop's clock; gets
\* counts the get_price calls; helius and jupiter are what each source answered
\* in the last call ("not_called" when it was not asked); returned is what the
\* call returned
NewOracle ==
    [helius_api_key |-> TRUE, cache |-> None,
     helius_backoff_until |-> 0, jupiter_backoff_until |-> 0,
     time |-> 0, gets |-> 0,
     helius |-> "not_called", jupiter |-> "not_called", returned |-> "None"]

ServiceInit ==
    /\ orders = [id \in OrderIds |-> None]
    /\ fsm_result = NoFsmResult
    /\ hybrid = NewHybrid
    /\ price_oracle = NewOracle

----------------------------------------------------------------------------
(* Initial state *)

Init ==
    /\ pairState = [p \in Pairs |-> NewPairState]
    /\ exit_only_mode = FALSE
    /\ call = IdleCall
    /\ result = NoResult
    /\ intents = <<>>
    /\ chain = <<>>
    /\ now = 0
    /\ deployed \in {"adapter", "engine"}
    /\ confirm_timeout = default_confirm_timeout
    /\ ServiceInit
    /\ state = "RUNNING"
    /\ consecutive_errors = 0
    /\ tick_lock = 0
    /\ tasks = [t \in Tasks |-> "idle"]
    /\ tick = IdleTick
    /\ pair_states = [p \in EnginePairs |-> NewEnginePairState]
    /\ prices = [p \in EnginePairs |-> None]
    /\ cache = [p \in EnginePairs |-> None]
    /\ positions = <<>>
    /\ dry_run \in (IF deployed = "engine" THEN BOOLEAN ELSE {FALSE})

----------------------------------------------------------------------------
\* variant: the pair is marked OPEN when the entry is submitted
EnterOnSubmit(p, price, notional) ==
    LET s == pairState[p]
        g == can_enter(s, exit_only_mode, now)
        c == [IdleCall EXCEPT !.op = "enter", !.pair = p, !.side = "BUY",
                              !.pc = "quote", !.attempt = 1, !.price = price,
                              !.size = notional \div price,
                              !.cid = Len(intents) + 1]
    IN  /\ call.op = "idle"
        /\ s.buy_consecutive_failures < MaxFailures
        /\ IF ~g.ok
           THEN /\ result' = TradeResult(c, "FAILURE", g.reason, 1)
                /\ call' = call
                /\ pairState' = pairState
           ELSE /\ call' = c
                /\ result' = NoResult
                /\ pairState' = [pairState EXCEPT ![p].position_state = "OPEN"]
        /\ deployed = "adapter"
        /\ UNCHANGED <<exit_only_mode, intents, chain, now, deployed, confirm_timeout, service_vars, engine_vars>>

(* JupiterAdapter.enter up to the ladder, lines 788-818 *)

Enter(p, price, notional) ==
    LET s == pairState[p]
        g == can_enter(s, exit_only_mode, now)
        c == [IdleCall EXCEPT !.op = "enter", !.pair = p, !.side = "BUY",
                              !.pc = "quote", !.attempt = 1, !.price = price,
                              !.size = notional \div price,
                              !.cid = Len(intents) + 1]
    IN  /\ call.op = "idle"
        /\ s.buy_consecutive_failures < MaxFailures
        /\ IF ~g.ok
           THEN /\ result' = TradeResult(c, "FAILURE", g.reason, 1)
                /\ call' = call
           ELSE /\ call' = c
                /\ result' = NoResult
        /\ deployed = "adapter"
        /\ UNCHANGED <<pairState, exit_only_mode, intents, chain, now, deployed, confirm_timeout, service_vars, engine_vars>>

(* JupiterAdapter.exit up to the ladder, lines 870-904 *)

Exit(p, price) ==
    LET s == pairState[p]
        g == can_exit(s, now)
        size_base == IF s.size_base = None THEN 0 ELSE Val(s.size_base)
        c == [IdleCall EXCEPT !.op = "exit", !.pair = p, !.side = "SELL",
                              !.pc = "quote", !.attempt = 1, !.price = price,
                              !.size = size_base,
                              !.cid = Len(intents) + 1]
    IN  /\ call.op = "idle"
        /\ s.sell_consecutive_failures < MaxFailures
        /\ IF g.raises
           THEN /\ result' = TradeResult(c, "RAISED", g.reason, 1)
                /\ call' = call
           ELSE IF ~g.ok
           THEN /\ result' = TradeResult(c, "FAILURE", g.reason, 1)
                /\ call' = call
           ELSE /\ call' = c
                /\ result' = NoResult
        /\ deployed = "adapter"
        /\ UNCHANGED <<pairState, exit_only_mode, intents, chain, now, deployed, confirm_timeout, service_vars, engine_vars>>

----------------------------------------------------------------------------
(* JupiterAdapter.execute_with_ladder *)

\* variant: the price impact of the quote is not compared with the maximum
LadderQuoteWithoutImpactGate(q) ==
    LET c == [call EXCEPT !.runs = @ + 1]
        s == pairState[c.pair]
    IN  /\ call.pc = "quote"
        /\ deployed = "adapter"
        /\ UNCHANGED <<exit_only_mode, intents, chain, now, deployed, confirm_timeout, service_vars, engine_vars>>
        /\ IF ~q.present
           THEN Consume(s, SawFailure(c))
           ELSE /\ call' = [c EXCEPT !.pc = "swap",
                                     !.quote_numeric = q.in_amount_numeric,
                                     !.price_impact_bps = q.impact_bps]
                /\ UNCHANGED <<pairState, result>>

\* lines 607-645: loop head, get_quote, price-impact check.  price_impact_bps
\* is float(quote["priceImpactPct"]) * 100 of the quote the attempt goes on with
LadderQuote(q) ==
    LET c == [call EXCEPT !.runs = @ + 1]
        s == pairState[c.pair]
    IN  /\ call.pc = "quote"
        /\ deployed = "adapter"
        /\ UNCHANGED <<exit_only_mode, intents, chain, now, deployed, confirm_timeout, service_vars, engine_vars>>
        /\ IF ~q.present
           THEN Consume(s, SawFailure(c))
           ELSE IF q.impact_bps > max_price_impact_bps
           THEN Return(s, c, "FAILURE", "price_impact", c.attempt)
           ELSE /\ call' = [c EXCEPT !.pc = "swap",
                                     !.quote_numeric = q.in_amount_numeric,
                                     !.price_impact_bps = q.impact_bps]
                /\ UNCHANGED <<pairState, result>>

\* lines 647-659: get_swap_transaction
LadderSwap(built) ==
    LET c == call
        s == pairState[c.pair]
    IN  /\ call.pc = "swap"
        /\ built => Len(intents) < MaxIntents
        /\ deployed = "adapter"
        /\ UNCHANGED <<exit_only_mode, intents, chain, now, deployed, confirm_timeout, service_vars, engine_vars>>
        /\ IF ~built
           THEN Consume(s, SawFailure(c))
           ELSE /\ call' = [c EXCEPT !.pc = "submit"]
                /\ UNCHANGED <<pairState, result>>

\* lines 661-674 with SolanaClient.execute_with_reconcile lines 596-638 and
\* SolanaClient.execute lines 431-479: mark "pending", snapshot the
\* pre-balances, create the InflightIntent, deserialize, sign and send.
\* Without a signature the result goes back to the ladder (lines 676-725).
LadderSubmit(out, delivered, pre_ok) ==
    LET c == [call EXCEPT !.pre_token = get_token_balance(chain, call.pair, pre_ok),
                          !.pre_usdc = get_usdc_balance(chain, pre_ok),
                          !.reconcile = "None"]
        s == SetMarker(pairState[c.pair], c.side, Pending)
        expected_delta == IF c.side = "BUY" THEN c.size ELSE 0 - c.size
        intent == NewIntent(c.pair, c.side, expected_delta, c.cid)
    IN  /\ call.pc = "submit"
        /\ deployed = "adapter"
        /\ UNCHANGED <<exit_only_mode, now, deployed, confirm_timeout, service_vars, engine_vars>>
        /\ delivered \in Delivered(out)
        /\ chain' = Append(chain, NewTx(c.pair, c.side, c.size, c.size * c.price,
                                        delivered))
        /\ IF out = "SENT"
           THEN /\ intents' = Append(intents, intent)
                /\ pairState' = [pairState EXCEPT ![c.pair] = s]
                /\ call' = [c EXCEPT !.pc = "confirm"]
                /\ UNCHANGED <<result>>
           ELSE /\ intents' = Append(intents, [intent EXCEPT !.outcome = "no_signature"])
                /\ Consume(SetMarker(s, c.side, None), SawFailure(c))

\* the signature the running attempt obtained: the index of its intent
CurrentSig == Len(intents)

\* variant: a signature the node does not know counts as failed
PollDecisionNotFoundFails(status) ==
    IF ~status.found THEN "FAILED_VERIFIED"
    ELSE IF status.error THEN "FAILED_VERIFIED"
    ELSE IF status.finalized THEN "FINALIZED"
    ELSE IF status.confirmed THEN "CONFIRMED"
    ELSE "WAIT"

\* SolanaClient._wait_for_confirmation, lines 510-545: what one status poll
\* decides ("WAIT" = sleep and poll again)
PollDecision(status) ==
    IF ~status.found THEN "WAIT"
    ELSE IF status.error THEN "FAILED_VERIFIED"
    ELSE IF status.finalized THEN "FINALIZED"
    ELSE IF status.confirmed THEN "CONFIRMED"
    ELSE "WAIT"

\* TxResult.is_success
is_success(outcome) == outcome \in {"CONFIRMED", "FINALIZED"}

\* TxResult.is_safe_to_retry
is_safe_to_retry(outcome) ==
    outcome \in {"FAILED_VERIFIED", "SIGN_FAILED", "DESERIALIZE_FAILED", "SEND_FAILED"}

\* execute_with_ladder, lines 676-743: the ladder classifies the TxResult
\* (outcome, sig) that execute_with_reconcile returned for the running attempt
LadderClassify(c, outcome, sig) ==
    LET s == SetMarker(pairState[c.pair], c.side, Some(sig)) IN
    IF is_success(outcome)
    THEN \* the TradeResult is built with int(quote["inAmount"])
         IF c.quote_numeric
         THEN Return(s, c, "SUCCESS", "None", c.attempt)
         ELSE Raise(s, c, "ValueError")
    ELSE IF outcome = "LANDED_UNCONFIRMED"
    THEN Return(s, c, "SUCCESS", "None", c.attempt)
    ELSE IF is_safe_to_retry(outcome)
    THEN Consume(SetMarker(s, c.side, None), SawFailure(c))
    ELSE Return(s, c, "UNKNOWN", "unknown_outcome", c.attempt)

\* what `loop.time() - start` can read at the head of the wait loop: 0 when
\* both readings of the clock fall into one of its ticks (first iteration
\* only), a time of a poll or two, and a time past the default timeout
ElapsedReadings == {0, 1, default_confirm_timeout + 1}

\* _wait_for_confirmation, line 500: `if elapsed > self.confirm_timeout`
timed_out(elapsed, timeout) == elapsed > timeout

\* one status poll of _wait_for_confirmation that decides the outcome, then
\* execute_with_reconcile lines 631-653 and the ladder's classification;
\* elapsed is what the loop head read before the poll
ConfirmPoll(rpc_ok, elapsed) ==
    LET c == call
        sig == CurrentSig
        d == PollDecision(get_signature_status(chain, sig, rpc_ok))
    IN  /\ call.pc = "confirm"
        /\ ~timed_out(elapsed, confirm_timeout)
        /\ d # "WAIT"
        /\ deployed = "adapter"
        /\ UNCHANGED <<exit_only_mode, chain, now, deployed, confirm_timeout, service_vars, engine_vars>>
        /\ intents' = [intents EXCEPT ![sig].signature = Some(sig),
                                      ![sig].outcome = IF is_success(d) THEN "confirmed"
                                                       ELSE "failed"]
        /\ LadderClassify(c, d, sig)

\* _wait_for_confirmation, lines 498-508: elapsed > confirm_timeout
ConfirmTimeout(elapsed) ==
    /\ call.pc = "confirm"
    /\ timed_out(elapsed, confirm_timeout)
    /\ call' = [call EXCEPT !.pc = "reconcile"]
    /\ deployed = "adapter"
    /\ UNCHANGED <<pairState, exit_only_mode, result, intents, chain, now, deployed, confirm_timeout, service_vars, engine_vars>>

\* execute_with_reconcile, lines 659-715 (after the settle delay): snapshot
\* the post-balances, compute and log the deltas, decide the verdict
Reconcile(token_ok, usdc_ok) ==
    LET sig == CurrentSig
        intent == [intents[sig] EXCEPT !.signature = Some(sig)]
        post_token == get_token_balance(chain, call.pair, token_ok)
        post_usdc == get_usdc_balance(chain, usdc_ok)
        bal == BalancesOf(intent, call.pre_token, call.pre_usdc, post_token, post_usdc)
        exc == reconcile_deltas_log(token_delta(bal))
        matched == matches_expected_deltas(bal, reconcile_tolerance_pct)
        c == [call EXCEPT !.reconcile =
                 IF post_token = None \/ post_usdc = None THEN "post_missing"
                 ELSE IF matched THEN "matched" ELSE "unmatched"]
    IN  /\ call.pc = "reconcile"
        /\ deployed = "adapter"
        /\ UNCHANGED <<exit_only_mode, chain, now, deployed, confirm_timeout, service_vars, engine_vars>>
        /\ IF exc # "None"
           THEN /\ intents' = [intents EXCEPT ![sig] = intent]
                /\ Raise(pairState[c.pair], c, exc)
           ELSE /\ intents' = [intents EXCEPT ![sig] =
                                 [intent EXCEPT !.outcome = IF matched THEN "reconciled_success"
                                                            ELSE "reconciled_failure"]]
                /\ LadderClassify(c, IF matched THEN "LANDED_UNCONFIRMED"
                                     ELSE "FAILED_VERIFIED", sig)

----------------------------------------------------------------------------
(* Resolution of preserved signatures *)

\* variant: the "pending" sentinel is polled like a signature; the node knows
\* no such signature, and the marker is given up
ResolveEntry_polling_pending(s, ch, rpc_ok) ==
    LET sig == s.inflight_buy_signature IN
    IF sig = None THEN s
    ELSE IF sig = Pending THEN [s EXCEPT !.inflight_buy_signature = None]
    ELSE LET status == get_signature_status(ch, Val(sig), rpc_ok) IN
         IF ~status.found THEN s
         ELSE IF status.confirmed \/ status.finalized
         THEN [s EXCEPT !.position_state = "OPEN", !.inflight_buy_signature = None]
         ELSE IF status.error
         THEN [s EXCEPT !.inflight_buy_signature = None]
         ELSE s

\* resolve_unknown_entries, lines 1009-1038, for one pair
ResolveEntry(s, ch, rpc_ok) ==
    LET sig == s.inflight_buy_signature IN
    IF ~IsRealSig(sig) THEN s
    ELSE LET status == get_signature_status(ch, Val(sig), rpc_ok) IN
         IF ~status.found THEN s
         ELSE IF status.confirmed \/ status.finalized
         THEN [s EXCEPT !.position_state = "OPEN", !.inflight_buy_signature = None]
         ELSE IF status.error
         THEN [s EXCEPT !.inflight_buy_signature = None]
         ELSE s

\* resolve_unknown_exits, lines 966-999, for one pair
ResolveExit(s, ch, rpc_ok) ==
    LET sig == s.inflight_sell_signature IN
    IF ~IsRealSig(sig) THEN s
    ELSE LET status == get_signature_status(ch, Val(sig), rpc_ok) IN
         IF ~status.found THEN s
         ELSE IF status.confirmed \/ status.finalized
         THEN [reset_sell_failures(s) EXCEPT
                 !.position_state = "FLAT", !.entry_price = None,
                 !.size_base = None, !.inflight_sell_signature = None]
         ELSE IF status.error
         THEN [s EXCEPT !.inflight_sell_signature = None]
         ELSE s

ResolveResult(op) == [NoResult EXCEPT !.op = op, !.outcome = "RETURNED"]

resolve_unknown_entries(rpc) ==
    /\ call.op = "idle"
    /\ pairState' = [p \in Pairs |-> ResolveEntry(pairState[p], chain, rpc[p])]
    /\ result' = ResolveResult("resolve_unknown_entries")
    /\ deployed = "adapter"
    /\ UNCHANGED <<exit_only_mode, call, intents, chain, now, deployed, confirm_timeout, service_vars, engine_vars>>

resolve_unknown_exits(rpc) ==
    /\ call.op = "idle"
    /\ pairState' = [p \in Pairs |-> ResolveExit(pairState[p], chain, rpc[p])]
    /\ result' = ResolveResult("resolve_unknown_exits")
    /\ deployed = "adapter"
    /\ UNCHANGED <<exit_only_mode, call, intents, chain, now, deployed, confirm_timeout, service_vars, engine_vars>>

\* set_exit_only_mode, lines 1197-1200
set_exit_only_mode(enabled) ==
    /\ call.op = "idle"
    /\ exit_only_mode' = enabled
    /\ result' = ResolveResult("set_exit_only_mode")
    /\ deployed = "adapter"
    /\ UNCHANGED <<pairState, call, intents, chain, now, deployed, confirm_timeout, service_vars, engine_vars>>

----------------------------------------------------------------------------
(* Shutdown flattening: JupiterAdapter.flatten_all *)

\* pair.startswith("SOL/"), for the pairs of the model
startswith_SOL(pair) == pair = "SOL/USDC"

\* what get_sol_balance returns, in hundredths of a SOL; None when the RPC
\* call raised
AdapterSolBalances == {None, Some(0), Some(min_sol_reserve), Some(min_sol_reserve + 1)}

\* price_oracle.get_cached_price(pair).price; None without an oracle or
\* without a cached price
OraclePrices == {None} \cup {Some(price) : price \in Prices}

\* the orders in which list(self._pair_states.items()) can deliver the pairs
\* (the order in which the pairs were first used)
Orders(S) ==
    {o \in [1..Cardinality(S) -> S] :
        \A a, b \in 1..Cardinality(S) : o[a] = o[b] => a = b}

\* what the last flatten_all did: the exits that returned (results), and the
\* SOL step ("None": no SOL position was found, "not_attempted": the reserve
\* branch was not entered, "skipped_reserve", "no_price", "attempted")
FlattenResult(c, outcome, error, pair) ==
    [NoResult EXCEPT !.op = "flatten_all", !.outcome = outcome, !.error = error,
                     !.pair = pair, !.keep_sol_reserve = c.keep_sol_reserve,
                     !.results = c.results, !.sol_balance = c.sol_balance,
                     !.sol_exit = c.sol_exit]

\* flatten_all, lines 1046-1066: exit_only_mode is set before the first await
flatten_all(keep_sol_reserve) ==
    /\ call.op = "idle"
    /\ exit_only_mode' = TRUE
    /\ call' = [IdleCall EXCEPT !.op = "flatten_all", !.pc = "flatten_resolve_entries",
                                !.keep_sol_reserve = keep_sol_reserve]
    /\ result' = NoResult
    /\ deployed = "adapter"
    /\ UNCHANGED <<pairState, intents, chain, now, deployed, confirm_timeout, service_vars, engine_vars>>

\* flatten_all, line 1069: await self.resolve_unknown_entries()
FlattenResolveEntries(rpc) ==
    /\ call.pc = "flatten_resolve_entries"
    /\ pairState' = [p \in DOMAIN pairState |-> ResolveEntry(pairState[p], chain, rpc[p])]
    /\ call' = [call EXCEPT !.pc = "flatten_resolve_exits"]
    /\ deployed = "adapter"
    /\ UNCHANGED <<exit_only_mode, result, intents, chain, now, deployed, confirm_timeout, service_vars, engine_vars>>

\* the loop of flatten_all goes on with the locals c: the next pair, the SOL
\* step (lines 1100-1103, up to await get_sol_balance), or the return of the
\* results when no SOL position was found (lines 1114-1117)
FlattenContinue(c) ==
    /\ pairState' = pairState
    /\ IF c.todo # <<>>
       THEN call' = c /\ result' = result
       ELSE IF c.sol_position # None
       THEN call' = [c EXCEPT !.pc = "flatten_sol"] /\ result' = result
       ELSE call' = IdleCall /\ result' = FlattenResult(c, "RETURNED", "None", "None")

\* await self.exit(pair, price, reason) inside flatten_all (lines 1095-1096,
\* 1111-1112) with exit lines 870-904; c holds the locals of flatten_all
\* after the call.  When can_exit raises, the exception leaves flatten_all.
\* When can_exit allows the exit, the SELL ladder starts; no reachable pair
\* state gets there (can_exit raises for every pair that is not FLAT), and
\* the part of flatten_all after such a ladder is not followed.
FlattenExit(c, p, price) ==
    LET s == pairState[p]
        g == can_exit(s, now)
        size_base == IF s.size_base = None THEN 0 ELSE Val(s.size_base)
    IN  IF g.raises
        THEN /\ call' = IdleCall
             /\ result' = FlattenResult(c, "RAISED", g.reason, p)
             /\ pairState' = pairState
        ELSE IF ~g.ok
        THEN FlattenContinue([c EXCEPT !.results = Append(@, [pair |-> p, outcome |-> "FAILURE"])])
        ELSE /\ call' = [c EXCEPT !.op = "exit", !.pair = p, !.side = "SELL",
                                  !.pc = "quote", !.attempt = 1, !.price = price,
                                  !.size = size_base, !.cid = Len(intents) + 1]
             /\ result' = NoResult
             /\ pairState' = pairState

\* flatten_all, line 1070: await self.resolve_unknown_exits(), and lines
\* 1072-1076: the loop starts over a copy of the pair states in dict order
FlattenResolveExits(rpc, order) ==
    /\ call.pc = "flatten_resolve_exits"
    /\ pairState' = [p \in DOMAIN pairState |-> ResolveExit(pairState[p], chain, rpc[p])]
    /\ call' = [call EXCEPT !.pc = "flatten_exits", !.todo = order]
    /\ deployed = "adapter"
    /\ UNCHANGED <<exit_only_mode, result, intents, chain, now, deployed, confirm_timeout, service_vars, engine_vars>>

\* flatten_all, lines 1076-1097: one iteration of the loop over the pairs
FlattenExitStep(oracle) ==
    LET p == Head(call.todo)
        s == pairState[p]
        c == [call EXCEPT !.todo = Tail(@)]
        price == IF oracle # None THEN Val(oracle)
                 ELSE IF s.entry_price = None THEN 0
                 ELSE Val(s.entry_price)
    IN  /\ call.pc = "flatten_exits"
        /\ IF s.position_state \notin {"OPEN", "EXIT_ONLY"}
           THEN FlattenContinue(c)
           ELSE IF s.inflight_sell_signature # None
           THEN FlattenContinue(c)
           ELSE IF startswith_SOL(p)
           THEN FlattenContinue([c EXCEPT !.sol_position = Some(p)])
           ELSE IF price > 0
           THEN FlattenExit(c, p, price)
           ELSE FlattenContinue(c)
        /\ deployed = "adapter"
        /\ UNCHANGED <<exit_only_mode, intents, chain, now, deployed, confirm_timeout, service_vars, engine_vars>>

\* flatten_all, lines 1100-1117: get_sol_balance returned; the SOL exit
FlattenSol(sol_balance) ==
    LET p == Val(call.sol_position)
        s == pairState[p]
        c == [call EXCEPT !.sol_position = None, !.sol_balance = sol_balance]
        truthy == sol_balance # None /\ Val(sol_balance) # 0
        price == IF s.entry_price = None THEN 0 ELSE Val(s.entry_price)
    IN  /\ call.pc = "flatten_sol"
        /\ IF ~(call.keep_sol_reserve /\ truthy)
           THEN FlattenContinue([c EXCEPT !.sol_exit = "not_attempted"])
           ELSE IF Val(sol_balance) <= min_sol_reserve
           THEN FlattenContinue([c EXCEPT !.sol_exit = "skipped_reserve"])
           ELSE IF price > 0
           THEN FlattenExit([c EXCEPT !.sol_exit = "attempted"], p, price)
           ELSE FlattenContinue([c EXCEPT !.sol_exit = "no_price"])
        /\ deployed = "adapter"
        /\ UNCHANGED <<exit_only_mode, intents, chain, now, deployed, confirm_timeout, service_vars, engine_vars>>

----------------------------------------------------------------------------
(* Environment *)

\* the chain executes a transaction that was sent, with or without an error
ChainLand(i, err) ==
    /\ i \in 1..Len(chain)
    /\ chain[i].level = "notfound"
    /\ chain' = [chain EXCEPT ![i].level = "processed", ![i].err = err]
    /\ deployed = "adapter"
    /\ UNCHANGED <<pairState, exit_only_mode, call, result, intents, now, deployed, confirm_timeout, service_vars, engine_vars>>

\* a signature the program can still poll: the running attempt's, or one a
\* pair's inflight marker holds
Polled(i) ==
    \/ call.pc \in {"confirm", "reconcile"} /\ i = CurrentSig
    \/ \E p \in Pairs : Some(i) \in {pairState[p].inflight_buy_signature,
                                      pairState[p].inflight_sell_signature}

\* the commitment level of an executed transaction rises (followed only for
\* signatures the program can still poll; balances do not depend on it)
ChainAdvance(i) ==
    /\ i \in 1..Len(chain)
    /\ Polled(i)
    /\ chain[i].level \in {"processed", "confirmed"}
    /\ chain' = [chain EXCEPT ![i].level = IF @ = "processed" THEN "confirmed"
                                           ELSE "finalized"]
    /\ deployed = "adapter"
    /\ UNCHANGED <<pairState, exit_only_mode, call, result, intents, now, deployed, confirm_timeout, service_vars, engine_vars>>

Tick ==
    /\ now < MaxTime * failure_cooldown_seconds
    /\ now' = now + failure_cooldown_seconds
    /\ deployed = "adapter"
    /\ UNCHANGED <<pairState, exit_only_mode, call, result, intents, chain, deployed, confirm_timeout, service_vars, engine_vars>>

----------------------------------------------------------------------------
(* Tick engine: the tick body *)

\* variant: the lock never appears taken
locked_never(lock) == FALSE

\* asyncio.Lock.locked, for `async with self._tick_lock` (line 1148)
locked(lock) == lock # 0

SolBalances == {None, Some(4), Some(5)}     \* what get_balance returns; None when it raised

\* tick, lines 1148-1161: a caller enters `async with self._tick_lock` when
\* the lock is free and runs to the first await; a paused engine returns
\* the skip record at once.  d is the time since the previous step (the
\* sleep of run(), line 1489).
TickBegin(t, d) ==
    /\ deployed = "engine"
    /\ tasks[t] \in {"idle", "waiting"}
    /\ ~locked(tick_lock)
    /\ cache' = Older(cache, d)
    /\ prices' = Older(prices, d)
    /\ IF state # "RUNNING"
       THEN /\ tick' = [IdleTick EXCEPT !.started_state = state, !.skipped = TRUE]
            /\ tasks' = [tasks EXCEPT ![t] = "idle"]
            /\ tick_lock' = tick_lock
       ELSE /\ tick' = [IdleTick EXCEPT !.pc = "reserve", !.started_state = state]
            /\ tasks' = [tasks EXCEPT ![t] = "body"]
            /\ tick_lock' = t
    /\ UNCHANGED <<state, consecutive_errors, pair_states, positions, dry_run>>
    /\ UNCHANGED <<adapter_vars, deployed, confirm_timeout, service_vars>>

\* a caller finds the lock taken and waits for it
TickWait(t) ==
    /\ deployed = "engine"
    /\ tasks[t] = "idle"
    /\ locked(tick_lock)
    /\ tasks' = [tasks EXCEPT ![t] = "waiting"]
    /\ UNCHANGED <<state, consecutive_errors, tick_lock, tick, pair_states,
                   prices, cache, positions, dry_run>>
    /\ UNCHANGED <<adapter_vars, deployed, confirm_timeout, service_vars>>

\* tick, lines 1163-1167, with _check_sol_reserve
CheckSolReserve(bal, d) ==
    LET tk == [tick EXCEPT !.balance_fetched = bal # None, !.balance = bal]
    IN  /\ deployed = "engine"
        /\ tick.pc = "reserve"
        /\ cache' = Older(cache, d)
        /\ prices' = Older(prices, d)
        /\ IF ~_check_sol_reserve(bal)
           THEN /\ state' = "PAUSED_SOL_RESERVE"
                /\ Release(tk)
           ELSE /\ state' = state
                /\ tick' = [tk EXCEPT !.pc = "prices", !.i = 1, !.all_valid = TRUE]
                /\ UNCHANGED <<tick_lock, tasks>>
        /\ UNCHANGED <<consecutive_errors, pair_states, positions, dry_run>>
        /\ UNCHANGED <<adapter_vars, deployed, confirm_timeout, service_vars>>

\* _update_all_prices, lines 1069-1105, one pair per step, and after the
\* last pair tick lines 1170-1175.  A cache hit returns without suspending,
\* so no time passes.
UpdatePrice(helius, jupiter, d) ==
    LET pair == cfg_pairs[tick.i]
        hit == cache[pair] # None /\ is_valid(Val(cache[pair]), price_ttl_seconds)
        aged_cache == Older(cache, d)
        aged_prices == Older(prices, d)
        r == get_price(aged_cache[pair], helius, jupiter, pair)
        valid == r.point # None /\ is_valid(Val(r.point), price_ttl_seconds)
        new_prices == IF valid THEN [aged_prices EXCEPT ![pair] = r.point]
                      ELSE aged_prices
        tk == [tick EXCEPT !.all_valid = @ /\ valid,
                           !.polled = @ \cup {pair},
                           !.valid = IF valid THEN @ \cup {pair} ELSE @,
                           !.stale_cache = IF r.stale_cache THEN @ \cup {pair} ELSE @,
                           !.i = @ + 1]
    IN  /\ deployed = "engine"
        /\ tick.pc = "prices"
        /\ hit => d = 0
        /\ cache' = [aged_cache EXCEPT ![pair] = r.cache]
        /\ prices' = new_prices
        /\ IF tk.i <= Len(cfg_pairs)
           THEN /\ tick' = tk
                /\ UNCHANGED <<state, consecutive_errors, tick_lock, tasks>>
           ELSE IF ~tk.all_valid
           THEN /\ state' = "PAUSED_PRICE_FEED"
                /\ consecutive_errors' = consecutive_errors
                /\ Release(tk)
           ELSE Proceed(StartPhase(tk, PhaseAfter("prices"), positions), positions,
                        consecutive_errors)
        /\ UNCHANGED <<pair_states, positions, dry_run>>
        /\ UNCHANGED <<adapter_vars, deployed, confirm_timeout, service_vars>>

\* variant: a dry run reports the trade and leaves the strategy's positions alone
DispatchDryRunKeepsPositions(action, pair) ==
    LET point == Val(prices[pair])
        tk == [tick EXCEPT !.dispatch = [action |-> action, pair |-> pair,
                                         price |-> point.price, age |-> point.age,
                                         stale_cache |-> pair \in tick.stale_cache],
                           !.entry_started = @ \/ action = "ENTRY",
                           !.last_status = NoSignatureStatus,
                           !.tx_status = "None"]
    IN  /\ consecutive_errors < MaxErrors
        /\ IF dry_run
           THEN /\ positions' = positions
                /\ pair_states' = pair_states
                /\ Proceed([tk EXCEPT !.i = @ + 1,
                                       !.trades = Append(@, TradeRecord(action, pair, TRUE))],
                           positions, consecutive_errors)
           ELSE /\ tick' = [tk EXCEPT !.pc = "quote",
                                      !.trade = [action |-> action, pair |-> pair]]
                /\ pair_states' = [pair_states EXCEPT ![pair].inflight = TRUE]
                /\ UNCHANGED <<positions, state, consecutive_errors, tick_lock, tasks>>

\* _execute_entry lines 1299-1331 / _execute_exit lines 1397-1426: the trade
\* is dispatched on prices[pair]; a dry run finishes at once
Dispatch(action, pair) ==
    LET point == Val(prices[pair])
        tk == [tick EXCEPT !.dispatch = [action |-> action, pair |-> pair,
                                         price |-> point.price, age |-> point.age,
                                         stale_cache |-> pair \in tick.stale_cache],
                           !.entry_started = @ \/ action = "ENTRY",
                           !.last_status = NoSignatureStatus,
                           !.tx_status = "None"]
        new_positions == IF action = "ENTRY" THEN open_position(positions, pair)
                         ELSE close_position(positions, pair)
    IN  /\ consecutive_errors < MaxErrors
        /\ IF dry_run
           THEN /\ positions' = new_positions
                /\ pair_states' = pair_states
                /\ Proceed([tk EXCEPT !.i = @ + 1,
                                       !.trades = Append(@, TradeRecord(action, pair, TRUE))],
                           new_positions, consecutive_errors)
           ELSE /\ tick' = [tk EXCEPT !.pc = "quote",
                                      !.trade = [action |-> action, pair |-> pair]]
                /\ pair_states' = [pair_states EXCEPT ![pair].inflight = TRUE]
                /\ UNCHANGED <<positions, state, consecutive_errors, tick_lock, tasks>>

\* tick, lines 1177-1187: one iteration of the exits loop; exit_reason is
\* whether strategy.check_exit returns a reason
ExitStep(exit_reason) ==
    LET pair == tick.snapshot[tick.i]
    IN  /\ deployed = "engine"
        /\ tick.pc = "exits"
        /\ IF pair_states[pair].inflight \/ prices[pair] = None \/ ~exit_reason
           THEN /\ Proceed([tick EXCEPT !.i = @ + 1], positions, consecutive_errors)
                /\ UNCHANGED <<pair_states, positions>>
           ELSE Dispatch("EXIT", pair)
        /\ UNCHANGED <<prices, cache, dry_run>>
        /\ UNCHANGED <<adapter_vars, deployed, confirm_timeout, service_vars>>

\* tick, lines 1189-1256: one iteration of the entries loop; signal is what
\* strategy.generate_entry_signal returns
EntryStep(signal) ==
    LET pair == cfg_pairs[tick.i]
    IN  /\ deployed = "engine"
        /\ tick.pc = "entries"
        /\ IF \/ pair_states[pair].inflight
              \/ ~strategy_can_enter(pair, positions)
              \/ prices[pair] = None
              \/ signal = "FLAT"
           THEN /\ Proceed([tick EXCEPT !.i = @ + 1], positions, consecutive_errors)
                /\ UNCHANGED <<pair_states, positions>>
           ELSE Dispatch("ENTRY", pair)
        /\ UNCHANGED <<prices, cache, dry_run>>
        /\ UNCHANGED <<adapter_vars, deployed, confirm_timeout, service_vars>>

\* variant: a trade that fails ends the tick, the remaining pairs are not visited
FinishTradeAbortsTick(tk, success) ==
    LET pair == tk.trade.pair
        new_positions == IF ~success THEN positions
                         ELSE IF tk.trade.action = "ENTRY"
                         THEN open_position(positions, pair)
                         ELSE close_position(positions, pair)
        ce == IF success THEN 0 ELSE consecutive_errors + 1
        back == [tk EXCEPT !.pc = IF ~success THEN "end"
                                  ELSE IF tk.trade.action = "EXIT" THEN "exits"
                                  ELSE "entries",
                           !.i = @ + 1, !.trade = NoTrade,
                           !.trades = Append(@, TradeRecord(tk.trade.action, pair, success))]
    IN  /\ positions' = new_positions
        /\ pair_states' = [pair_states EXCEPT ![pair].inflight = FALSE]
        /\ Proceed(back, new_positions, ce)

\* _execute_entry lines 1361-1373 / _execute_exit lines 1453-1465 and the
\* returns before them: the position and the error counter are updated, the
\* inflight flag is cleared (finally), and the loop goes on
FinishTrade(tk, success) ==
    LET pair == tk.trade.pair
        new_positions == IF ~success THEN positions
                         ELSE IF tk.trade.action = "ENTRY"
                         THEN open_position(positions, pair)
                         ELSE close_position(positions, pair)
        ce == IF success THEN 0 ELSE consecutive_errors + 1
        back == [tk EXCEPT !.pc = IF tk.trade.action = "EXIT" THEN "exits" ELSE "entries",
                           !.i = @ + 1, !.trade = NoTrade,
                           !.trades = Append(@, TradeRecord(tk.trade.action, pair, success))]
    IN  /\ positions' = new_positions
        /\ pair_states' = [pair_states EXCEPT ![pair].inflight = FALSE]
        /\ Proceed(back, new_positions, ce)

\* jupiter.get_quote returned (lines 1334-1343, 1429-1438)
TradeQuote(ok, d) ==
    /\ deployed = "engine"
    /\ tick.pc = "quote"
    /\ cache' = Older(cache, d)
    /\ prices' = Older(prices, d)
    /\ IF ~ok
       THEN FinishTrade(tick, FALSE)
       ELSE /\ tick' = [tick EXCEPT !.pc = "swap"]
            /\ UNCHANGED <<state, consecutive_errors, tick_lock, tasks, pair_states, positions>>
    /\ UNCHANGED <<dry_run, adapter_vars, deployed, confirm_timeout, service_vars>>

\* jupiter.get_swap_transaction returned (lines 1347-1352, 1440-1445)
TradeSwap(ok, d) ==
    /\ deployed = "engine"
    /\ tick.pc = "swap"
    /\ cache' = Older(cache, d)
    /\ prices' = Older(prices, d)
    /\ IF ~ok
       THEN FinishTrade(tick, FALSE)
       ELSE /\ tick' = [tick EXCEPT !.pc = "send"]
            /\ UNCHANGED <<state, consecutive_errors, tick_lock, tasks, pair_states, positions>>
    /\ UNCHANGED <<dry_run, adapter_vars, deployed, confirm_timeout, service_vars>>

\* TransactionExecutor.execute, lines 794-843: deserialize, sign, send
TradeSend(out, d) ==
    LET status == IF out.kind = "send_error" THEN _classify_error(out.msg) ELSE "FAILED"
    IN  /\ deployed = "engine"
        /\ tick.pc = "send"
        /\ cache' = Older(cache, d)
        /\ prices' = Older(prices, d)
        /\ IF out.kind # "sent"
           THEN FinishTrade([tick EXCEPT !.tx_status = status], FALSE)
           ELSE /\ tick' = [tick EXCEPT !.pc = "confirm"]
                /\ UNCHANGED <<state, consecutive_errors, tick_lock, tasks, pair_states,
                               positions>>
        /\ UNCHANGED <<dry_run, adapter_vars, deployed, confirm_timeout, service_vars>>

\* TransactionExecutor.execute, lines 859-889: one get_signature_statuses poll
TradePoll(st, d) ==
    LET decision == ExecDecision(st)
        tk == [tick EXCEPT !.last_status = st]
    IN  /\ deployed = "engine"
        /\ tick.pc = "confirm"
        /\ cache' = Older(cache, d)
        /\ prices' = Older(prices, d)
        /\ IF decision = "WAIT"
           THEN /\ tick' = tk
                /\ UNCHANGED <<state, consecutive_errors, tick_lock, tasks, pair_states,
                               positions>>
           ELSE FinishTrade([tk EXCEPT !.tx_status = decision], decision = "SUCCESS")
        /\ UNCHANGED <<dry_run, adapter_vars, deployed, confirm_timeout, service_vars>>

\* TransactionExecutor.execute, lines 891-903: get_signature_statuses raised
TradePollError(error_msg, d) ==
    /\ deployed = "engine"
    /\ tick.pc = "confirm"
    /\ cache' = Older(cache, d)
    /\ prices' = Older(prices, d)
    /\ FinishTrade([tick EXCEPT !.tx_status = _classify_error(error_msg)], FALSE)
    /\ UNCHANGED <<dry_run, adapter_vars, deployed, confirm_timeout, service_vars>>

\* TransactionExecutor.execute, lines 849-857: elapsed > confirm_timeout
TradeTimeout ==
    /\ deployed = "engine"
    /\ tick.pc = "confirm"
    /\ cache' = Older(cache, confirm_timeout_seconds)
    /\ prices' = Older(prices, confirm_timeout_seconds)
    /\ FinishTrade([tick EXCEPT !.tx_status = "TIMEOUT"], FALSE)
    /\ UNCHANGED <<dry_run, adapter_vars, deployed, confirm_timeout, service_vars>>

\* JupiterDexEngine.shutdown, lines 1495-1501, as run() reaches it in its
\* finally clause from the sleep between two ticks: the state is set and the
\* three clients are closed.  The run loop is over, so the record of the last
\* tick is dropped.
shutdown ==
    /\ deployed = "engine"
    /\ state # "STOPPED"
    /\ ~locked(tick_lock)
    /\ \A t \in Tasks : tasks[t] = "idle"
    /\ state' = "STOPPED"
    /\ tick' = IdleTick
    /\ UNCHANGED <<consecutive_errors, tick_lock, tasks, pair_states, prices, cache,
                   positions, dry_run>>
    /\ UNCHANGED <<adapter_vars, deployed, confirm_timeout, service_vars>>

----------------------------------------------------------------------------
Next ==
    \/ \E p \in Pairs, price \in Prices, notional \in Notionals : Enter(p, price, notional)
    \/ \E p \in Pairs, price \in Prices : Exit(p, price)
    \/ \E q \in Quotes : LadderQuote(q)
    \/ \E built \in BOOLEAN : LadderSwap(built)
    \/ \E out \in ExecuteOutcomes, delivered \in BOOLEAN, pre_ok \in BOOLEAN :
          LadderSubmit(out, delivered, pre_ok)
    \/ \E rpc_ok \in BOOLEAN, elapsed \in ElapsedReadings : ConfirmPoll(rpc_ok, elapsed)
    \/ \E elapsed \in ElapsedReadings : ConfirmTimeout(elapsed)
    \/ \E token_ok \in BOOLEAN, usdc_ok \in BOOLEAN : Reconcile(token_ok, usdc_ok)
    \/ \E rpc \in [Pairs -> BOOLEAN] : resolve_unknown_entries(rpc)
    \/ \E rpc \in [Pairs -> BOOLEAN] : resolve_unknown_exits(rpc)
    \/ \E enabled \in BOOLEAN : set_exit_only_mode(enabled)
    \/ \E keep_sol_reserve \in BOOLEAN : flatten_all(keep_sol_reserve)
    \/ \E rpc \in [Pairs -> BOOLEAN] : FlattenResolveEntries(rpc)
    \/ \E rpc \in [Pairs -> BOOLEAN], order \in Orders(Pairs) :
          FlattenResolveExits(rpc, order)
    \/ \E oracle \in OraclePrices : FlattenExitStep(oracle)
    \/ \E sol_balance \in AdapterSolBalances : FlattenSol(sol_balance)
    \/ \E i \in 1..MaxIntents, err \in BOOLEAN : ChainLand(i, err)
    \/ \E i \in 1..MaxIntents : ChainAdvance(i)
    \/ Tick
    \/ \E t \in Tasks, d \in Durations : TickBegin(t, d)
    \/ \E t \in Tasks : TickWait(t)
    \/ \E bal \in SolBalances, d \in Durations : CheckSolReserve(bal, d)
    \/ \E helius \in FetchResults, jupiter \in FetchResults, d \in Durations :
          UpdatePrice(helius, jupiter, d)
    \/ \E exit_reason \in BOOLEAN : ExitStep(exit_reason)
    \/ \E signal \in {"LONG", "FLAT"} : EntryStep(signal)
    \/ \E ok \in BOOLEAN, d \in Durations : TradeQuote(ok, d)
    \/ \E ok \in BOOLEAN, d \in Durations : TradeSwap(ok, d)
    \/ \E out \in SendOutcomes, d \in Durations : TradeSend(out, d)
    \/ \E st \in SignatureStatuses, d \in Durations : TradePoll(st, d)
    \/ \E error_msg \in ErrorMessages, d \in Durations : TradePollError(error_msg, d)
    \/ TradeTimeout
    \/ shutdown

Spec == Init /\ [][Next]_vars

----------------------------------------------------------------------------
(* flatten_all over two pairs.  The pairs of an adapter are independent of *)
(* each other, so each pair starts in a state that one pair reaches under  *)
(* Spec (ReachablePairStates): FLAT, FLAT with the "pending" marker left   *)
(* by an entry that raised, OPEN after a confirmed entry, and OPEN without *)
(* price and size after resolve_unknown_entries.                           *)

FlattenPairs == {"JUP/USDC", "SOL/USDC"}

OpenAfterEntry ==
    [NewPairState EXCEPT !.position_state = "OPEN", !.entry_price = Some(2),
                         !.size_base = Some(2)]

OpenAfterResolve == [NewPairState EXCEPT !.position_state = "OPEN"]

FlatWithPendingMarker == [NewPairState EXCEPT !.inflight_buy_signature = Pending]

ReachablePairStates ==
    {NewPairState, FlatWithPendingMarker, OpenAfterEntry, OpenAfterResolve}

FlattenInit ==
    /\ pairState \in [FlattenPairs -> ReachablePairStates]
    /\ exit_only_mode \in BOOLEAN
    /\ call = IdleCall
    /\ result = NoResult
    /\ intents = <<>>
    /\ chain = <<>>
    /\ now = 0
    /\ deployed = "adapter"
    /\ confirm_timeout = default_confirm_timeout
    /\ ServiceInit
    /\ state = "RUNNING"
    /\ consecutive_errors = 0
    /\ tick_lock = 0
    /\ tasks = [t \in Tasks |-> "idle"]
    /\ tick = IdleTick
    /\ pair_states = [p \in EnginePairs |-> NewEnginePairState]
    /\ prices = [p \in EnginePairs |-> None]
    /\ cache = [p \in EnginePairs |-> None]
    /\ positions = <<>>
    /\ dry_run = FALSE

FlattenNext ==
    \/ \E keep_sol_reserve \in BOOLEAN : flatten_all(keep_sol_reserve)
    \/ \E rpc \in [FlattenPairs -> BOOLEAN] : FlattenResolveEntries(rpc)
    \/ \E rpc \in [FlattenPairs -> BOOLEAN], order \in Orders(FlattenPairs) :
          FlattenResolveExits(rpc, order)
    \/ \E oracle \in OraclePrices : FlattenExitStep(oracle)
    \/ \E sol_balance \in AdapterSolBalances : FlattenSol(sol_balance)

FlattenSpec == FlattenInit /\ [][FlattenNext]_vars

----------------------------------------------------------------------------
(* The gates can_enter and can_exit as functions of the pair's state *)

\* a held position carries the price and size enter recorded
GatePairStates ==
    {[position_state |-> ps,
      entry_price |-> IF ps = "FLAT" THEN None ELSE Some(2),
      size_base |-> IF ps = "FLAT" THEN None ELSE Some(2),
      inflight_buy_signature |-> b,
      inflight_sell_signature |-> sl,
      buy_cooldown_until |-> bc,
      sell_cooldown_until |-> sc,
      buy_consecutive_failures |-> IF bc = None THEN 0 ELSE failure_threshold,
      sell_consecutive_failures |-> IF sc = None THEN 0 ELSE failure_threshold] :
        ps \in PositionStateMembers,
        b \in {None, Pending, Some(1)},
        sl \in {None, Pending, Some(1)},
        bc \in {None, Some(failure_cooldown_seconds)},
        sc \in {None, Some(failure_cooldown_seconds)}}

GateResult(op, p, g) ==
    [NoResult EXCEPT !.op = op, !.pair = p,
                     !.outcome = IF g.raises THEN "RAISED"
                                 ELSE IF g.ok THEN "TRUE" ELSE "FALSE",
                     !.error = g.reason]

\* a caller evaluates can_enter(pair)
CallCanEnter(p) ==
    /\ deployed = "adapter"
    /\ call.op = "idle"
    /\ result' = GateResult("can_enter", p, can_enter(pairState[p], exit_only_mode, now))
    /\ UNCHANGED <<pairState, exit_only_mode, call, intents, chain, now, deployed, confirm_timeout, service_vars, engine_vars>>

\* a caller evaluates can_exit(pair)
CallCanExit(p) ==
    /\ deployed = "adapter"
    /\ call.op = "idle"
    /\ result' = GateResult("can_exit", p, can_exit(pairState[p], now))
    /\ UNCHANGED <<pairState, exit_only_mode, call, intents, chain, now, deployed, confirm_timeout, service_vars, engine_vars>>

\* state.record_buy_failure(...) / state.record_sell_failure(...) as
\* execute_with_ladder calls them (lines 747 and 753)
RecordFailure(p, side) ==
    /\ deployed = "adapter"
    /\ call.op = "idle"
    /\ (IF side = "BUY" THEN pairState[p].buy_consecutive_failures
                        ELSE pairState[p].sell_consecutive_failures) < MaxFailures
    /\ pairState' = [pairState EXCEPT ![p] = IF side = "BUY" THEN record_buy_failure(@, now)
                                             ELSE record_sell_failure(@, now)]
    /\ result' = [NoResult EXCEPT !.op = "record_failure", !.pair = p, !.outcome = side]
    /\ UNCHANGED <<exit_only_mode, call, intents, chain, now, deployed, confirm_timeout, service_vars, engine_vars>>

GateInit ==
    /\ pairState \in [Pairs -> GatePairStates]
    /\ exit_only_mode \in BOOLEAN
    /\ call = IdleCall
    /\ result = NoResult
    /\ intents = <<>>
    /\ chain = <<>>
    /\ now \in {0, failure_cooldown_seconds}
    /\ deployed = "adapter"
    /\ confirm_timeout = default_confirm_timeout
    /\ ServiceInit
    /\ state = "RUNNING"
    /\ consecutive_errors = 0
    /\ tick_lock = 0
    /\ tasks = [t \in Tasks |-> "idle"]
    /\ tick = IdleTick
    /\ pair_states = [p \in EnginePairs |-> NewEnginePairState]
    /\ prices = [p \in EnginePairs |-> None]
    /\ cache = [p \in EnginePairs |-> None]
    /\ positions = <<>>
    /\ dry_run = FALSE

GateNext ==
    \/ \E p \in Pairs : CallCanEnter(p)
    \/ \E p \in Pairs : CallCanExit(p)
    \/ \E p \in Pairs, side \in {"BUY", "SELL"} : RecordFailure(p, side)

GateSpec == GateInit /\ [][GateNext]_vars

----------------------------------------------------------------------------
(* The adapter over a SolanaClient constructed with confirm_timeout = 0 *)

ZeroTimeoutInit ==
    /\ pairState = [p \in Pairs |-> NewPairState]
    /\ exit_only_mode = FALSE
    /\ call = IdleCall
    /\ result = NoResult
    /\ intents = <<>>
    /\ chain = <<>>
    /\ now = 0
    /\ deployed = "adapter"
    /\ confirm_timeout = 0
    /\ ServiceInit
    /\ state = "RUNNING"
    /\ consecutive_errors = 0
    /\ tick_lock = 0
    /\ tasks = [t \in Tasks |-> "idle"]
    /\ tick = IdleTick
    /\ pair_states = [p \in EnginePairs |-> NewEnginePairState]
    /\ prices = [p \in EnginePairs |-> None]
    /\ cache = [p \in EnginePairs |-> None]
    /\ positions = <<>>
    /\ dry_run = FALSE

ZeroTimeoutNext ==
    \/ \E p \in Pairs, price \in Prices, notional \in Notionals : Enter(p, price, notional)
    \/ \E q \in Quotes : LadderQuote(q)
    \/ \E built \in BOOLEAN : LadderSwap(built)
    \/ \E out \in ExecuteOutcomes, delivered \in BOOLEAN, pre_ok \in BOOLEAN :
          LadderSubmit(out, delivered, pre_ok)
    \/ \E rpc_ok \in BOOLEAN, elapsed \in ElapsedReadings : ConfirmPoll(rpc_ok, elapsed)
    \/ \E elapsed \in ElapsedReadings : ConfirmTimeout(elapsed)
    \/ \E token_ok \in BOOLEAN, usdc_ok \in BOOLEAN : Reconcile(token_ok, usdc_ok)
    \/ \E i \in 1..MaxIntents, err \in BOOLEAN : ChainLand(i, err)
    \/ \E i \in 1..MaxIntents : ChainAdvance(i)

ZeroTimeoutSpec == ZeroTimeoutInit /\ [][ZeroTimeoutNext]_vars

----------------------------------------------------------------------------
(* The adapter with a caller that keeps running the resolve passes *)

\* the RPC node answers for every pair
RpcUp == [p \in Pairs |-> TRUE]

ResolveInit ==
    /\ pairState = [p \in Pairs |-> NewPairState]
    /\ exit_only_mode = FALSE
    /\ call = IdleCall
    /\ result = NoResult
    /\ intents = <<>>
    /\ chain = <<>>
    /\ now = 0
    /\ deployed = "adapter"
    /\ confirm_timeout = default_confirm_timeout
    /\ ServiceInit
    /\ state = "RUNNING"
    /\ consecutive_errors = 0
    /\ tick_lock = 0
    /\ tasks = [t \in Tasks |-> "idle"]
    /\ tick = IdleTick
    /\ pair_states = [p \in EnginePairs |-> NewEnginePairState]
    /\ prices = [p \in EnginePairs |-> None]
    /\ cache = [p \in EnginePairs |-> None]
    /\ positions = <<>>
    /\ dry_run = FALSE

ResolveNext ==
    \/ \E p \in Pairs, price \in Prices, notional \in Notionals : Enter(p, price, notional)
    \/ \E q \in Quotes : LadderQuote(q)
    \/ \E built \in BOOLEAN : LadderSwap(built)
    \/ \E out \in ExecuteOutcomes, delivered \in BOOLEAN, pre_ok \in BOOLEAN :
          LadderSubmit(out, delivered, pre_ok)
    \/ \E rpc_ok \in BOOLEAN, elapsed \in ElapsedReadings : ConfirmPoll(rpc_ok, elapsed)
    \/ \E elapsed \in ElapsedReadings : ConfirmTimeout(elapsed)
    \/ \E token_ok \in BOOLEAN, usdc_ok \in BOOLEAN : Reconcile(token_ok, usdc_ok)
    \/ \E rpc \in [Pairs -> BOOLEAN] : resolve_unknown_entries(rpc)
    \/ \E rpc \in [Pairs -> BOOLEAN] : resolve_unknown_exits(rpc)
    \/ \E i \in 1..MaxIntents, err \in BOOLEAN : ChainLand(i, err)
    \/ \E i \in 1..MaxIntents : ChainAdvance(i)

\* the caller runs both resolve passes again and again, and the node answers;
\* the chain is not obliged to execute a transaction that was sent
ResolveFairSpec ==
    /\ ResolveInit
    /\ [][ResolveNext]_vars
    /\ WF_vars(resolve_unknown_entries(RpcUp))
    /\ WF_vars(resolve_unknown_exits(RpcUp))

----------------------------------------------------------------------------
(* Properties *)

TypeOK ==
    /\ exit_only_mode \in BOOLEAN
    /\ now \in 0..(MaxTime * failure_cooldown_seconds)
    /\ Len(intents) = Len(chain)
    /\ Len(intents) <= MaxIntents
    /\ \A p \in Pairs : pairState[p].position_state \in PositionStateMembers

SameCall(i, j) == intents[i].cid = intents[j].cid

\* the last InflightIntent the call cid created (0: none)
LastIntentOf(cid) ==
    IF IntentsOf(intents, cid) = {} THEN 0
    ELSE CHOOSE i \in IntentsOf(intents, cid) : \A j \in IntentsOf(intents, cid) : j <= i

\* the last finished call was an enter / exit whose ladder ran
LadderFinished == call.op = "idle" /\ result.op \in {"enter", "exit"}

Position(p) ==
    <<pairState[p].position_state, pairState[p].entry_price, pairState[p].size_base>>

\* C1: of the transactions one intent (one enter / exit call) submitted, at
\* most one takes effect on chain, whatever the attempts' outcomes were.
C1_NoDuplicateTrade ==
    \A i, j \in 1..Len(intents) :
        (SameCall(i, j) /\ TookEffect(chain[i]) /\ TookEffect(chain[j])) => i = j

\* C2: inside one ladder a further transaction is submitted only after the
\* previous attempt was resolved as a definite failure: it failed before a
\* signature was obtained, its signature has an on-chain error status, or
\* reconciliation gave the verdict reconciled_failure.  An attempt that only
\* timed out is never followed by another.
C2_ResubmitOnlyAfterDefiniteFailure ==
    \A i, j \in 1..Len(intents) :
        (i < j /\ SameCall(i, j)) =>
            \/ intents[i].outcome = "no_signature"
            \/ intents[i].signature # None /\ chain[i].level # "notfound" /\ chain[i].err
            \/ intents[i].outcome = "reconciled_failure"

\* C2 witness: a second transaction of an intent was sent after the first one
\* was seen to fail on chain.
C2_Witness ==
    \E i, j \in 1..Len(intents) :
        /\ i < j /\ SameCall(i, j)
        /\ intents[i].outcome = "failed"
        /\ chain[j].level # "unsent"

\* a submission that returned a signature and that the program has not resolved
Inflight(i) == intents[i].outcome = "None"

AtMostOneInflight ==
    \A i, j \in 1..Len(intents) :
        (Inflight(i) /\ Inflight(j) /\ intents[i].pair = intents[j].pair
            /\ intents[i].side = intents[j].side) => i = j

\* the step is a call of enter / exit (op) for the pair p
Invoked(op, p) ==
    /\ call.op = "idle"
    /\ \/ call'.op = op /\ call'.pair = p
       \/ call'.op = "idle" /\ result' # result /\ result'.op = op /\ result'.pair = p

Rejected ==
    /\ call'.op = "idle"
    /\ result'.outcome \in {"FAILURE", "RAISED"}
    /\ intents' = intents /\ chain' = chain /\ pairState' = pairState

RejectedWhileInflight ==
    \A p \in Pairs :
        /\ (Invoked("enter", p) /\ pairState[p].inflight_buy_signature # None) => Rejected
        /\ (Invoked("exit", p) /\ pairState[p].inflight_sell_signature # None) => Rejected

DefinitiveEnd(p) ==
    /\ call.op # "idle" /\ call.pair = p /\ call'.op = "idle"
    /\ result'.outcome \in {"SUCCESS", "FAILURE"}

\* the step is a resolve-unknown pass that found the status of p's signature
ResolvePass(p) ==
    /\ \/ /\ call.op = "idle"
          /\ result'.op \in {"resolve_unknown_entries", "resolve_unknown_exits"}
       \/ call.pc \in {"flatten_resolve_entries", "flatten_resolve_exits"}
    /\ \E m \in {pairState[p].inflight_buy_signature, pairState[p].inflight_sell_signature} :
          IsRealSig(m) /\ chain[Val(m)].level \notin {"unsent", "notfound"}

\* C4: a pair's position (status, entry_price, size_base) changes only in the
\* step that ends an intent with SUCCESS or FAILURE, or in a resolve-unknown
\* pass; an intent that ends without a definitive outcome leaves it as it was.
C4_OutcomeGated ==
    [][\A p \in Pairs : Position(p)' # Position(p) => (DefinitiveEnd(p) \/ ResolvePass(p))]_vars

\* C4 witness: an entry whose confirmation timed out has ended without a
\* definitive outcome and the pair is still FLAT.
C4_Witness ==
    /\ LadderFinished /\ result.op = "enter"
    /\ result.reconcile # "None"
    /\ result.outcome \notin {"SUCCESS", "FAILURE"}
    /\ Position(result.pair) = <<"FLAT", None, None>>

\* C5: when a BUY timed out with signature S and the post-balances could not
\* be fetched, the call returns UNKNOWN, the position is unchanged, the buy
\* marker is S and the timed-out attempt is the last of the intent.
C5_TimeoutWithoutBalancesIsUnknown ==
    (LadderFinished /\ result.op = "enter" /\ result.reconcile = "post_missing") =>
        /\ result.outcome = "UNKNOWN"
        /\ Position(result.pair) = <<"FLAT", None, None>>
        /\ pairState[result.pair].inflight_buy_signature = Some(LastIntentOf(result.cid))
        /\ result.attempt_number = result.consumed + 1

\* C6: an OPEN pair has entry_price > 0 and size_base > 0.
C6_OpenHasPriceAndSize ==
    \A p \in Pairs :
        pairState[p].position_state = "OPEN" =>
            /\ pairState[p].entry_price # None /\ pairState[p].size_base # None
            /\ \A v \in pairState[p].entry_price \cup pairState[p].size_base : v > 0

\* C7: the reconcile step gives the verdict reconciled_success exactly when
\* the balance deltas satisfy the side's rule (matches_expected_deltas).
C7_VerdictIffDeltasMatch ==
    (LadderFinished /\ result.reconcile # "None") =>
        (intents[LastIntentOf(result.cid)].outcome = "reconciled_success"
            <=> result.reconcile = "matched")

\* C8: a ladder never starts more than max_attempts iterations, and the
\* attempts it has consumed equal the definite failures it has seen.
C8_LadderConsumption ==
    /\ call.op \in {"enter", "exit"} =>
          /\ call.runs <= max_attempts
          /\ call.attempt <= max_attempts
          /\ call.attempt - 1 = call.failures
    /\ result.op \in {"enter", "exit"} =>
          /\ result.runs <= max_attempts
          /\ result.consumed = result.failures

\* C8 witness: a ladder was exhausted by max_attempts definite failures.
C8_Witness ==
    /\ LadderFinished
    /\ result.error = "all_attempts_exhausted"
    /\ result.runs = max_attempts /\ result.failures = max_attempts

Counters(p) ==
    <<pairState[p].buy_consecutive_failures, pairState[p].sell_consecutive_failures,
      pairState[p].buy_cooldown_until, pairState[p].sell_cooldown_until>>

\* the step ends the call in the reconcile step of an attempt whose outcome
\* stayed unknown (timed out, post-balances not available)
EndsUnknown ==
    /\ call.pc = "reconcile" /\ call'.op = "idle"
    /\ result'.reconcile = "post_missing"

\* C9: an attempt whose outcome stays unknown makes the ladder return UNKNOWN
\* at the current attempt number, without consuming the attempt, without
\* touching failure counters or cooldowns, and with the side's marker holding
\* the signature.
C9_UnknownDoesNotAdvance ==
    [][EndsUnknown =>
          /\ result'.outcome = "UNKNOWN"
          /\ result'.attempt_number = call.attempt
          /\ result'.consumed = call.attempt - 1
          /\ Counters(call.pair)' = Counters(call.pair)
          /\ Marker(pairState[call.pair], call.side)' = Some(CurrentSig)]_vars

\* C10: once failure_threshold consecutive BUY attempts of a pair have ended
\* in a definite failure, buy_consecutive_failures >= failure_threshold, the
\* buy cooldown is set, and can_enter refuses with buy_cooldown_until while
\* the window lasts.
C10_CooldownAfterThreshold ==
    (LadderFinished /\ result.op = "enter" /\ result.outcome = "FAILURE"
        /\ result.failures >= failure_threshold) =>
        LET s == pairState[result.pair] IN
        /\ s.buy_consecutive_failures >= failure_threshold
        /\ s.buy_cooldown_until # None
        /\ is_buy_in_cooldown(s, now) =>
              can_enter(s, exit_only_mode, now) = Gate(FALSE, "buy_cooldown_until")

----------------------------------------------------------------------------
(* Properties of the tick engine *)

EngineTypeOK ==
    /\ deployed \in {"adapter", "engine"}
    /\ state \in {"RUNNING", "PAUSED_PRICE_FEED", "PAUSED_SOL_RESERVE",
                  "PAUSED_EXEC_ERRORS", "STOPPED"}
    /\ consecutive_errors \in 0..MaxErrors
    /\ tick_lock \in {0} \cup Tasks
    /\ tasks \in [Tasks -> {"idle", "waiting", "body"}]
    /\ tick.pc \in {"idle", "reserve", "prices", "exits", "entries",
                    "quote", "swap", "send", "confirm"}
    /\ pair_states \in [EnginePairs -> [inflight : BOOLEAN]]
    /\ \A p \in EnginePairs : prices[p] # None => prices[p] = cache[p]
    /\ \A k \in 1..Len(positions) : positions[k] \in EnginePairs
    /\ dry_run \in BOOLEAN

\* the tick body is inside _execute_entry / _execute_exit
InTrade == tick.pc \in {"quote", "swap", "send", "confirm"}

\* C11: in every tick the exits come before the entries: once the tick has
\* started a BUY execution it runs no SELL execution and is no longer in the
\* exits loop.
C11_ExitsBeforeEntries ==
    /\ tick.dispatch.action = "EXIT" => ~tick.entry_started
    /\ tick.pc = "exits" => ~tick.entry_started

\* a tick that exited a pair and then started an entry (for the same pair)
C11_Witness ==
    /\ tick.dispatch.action = "ENTRY"
    /\ \E k \in 1..Len(tick.snapshot) : tick.snapshot[k] = tick.dispatch.pair

\* C12: fail-closed pricing: the PricePoint a trade is dispatched on has a
\* positive finite price within the bounds of its pair and an age within the
\* TTL at the moment of the dispatch, and is not a stale-cache return of
\* get_price.
C12_FailClosedPricing ==
    tick.dispatch.action # "None" =>
        /\ _validate_price_bounds(Finite(tick.dispatch.price), tick.dispatch.pair)
        /\ tick.dispatch.age <= price_ttl_seconds
        /\ ~tick.dispatch.stale_cache

\* the running tick (or the last one, until the next starts) began in RUNNING
\* and was not skipped
RanBody == tick.started_state = "RUNNING" /\ ~tick.skipped

\* C13: tick gating: a tick dispatches a trade only if the engine was RUNNING
\* at tick start, the SOL balance was fetched and is >= min_sol_reserve, and
\* every configured pair obtained a valid PricePoint in the tick; a balance
\* below the reserve ends the tick in PAUSED_SOL_RESERVE, and a pair without a
\* valid price ends it in PAUSED_PRICE_FEED.
C13_TickGating ==
    /\ (InTrade \/ tick.dispatch.action # "None") =>
            /\ tick.started_state = "RUNNING"
            /\ tick.balance_fetched
            /\ Val(tick.balance) >= cfg_min_sol_reserve
            /\ tick.valid = EnginePairs
    /\ (RanBody /\ tick.balance_fetched /\ Val(tick.balance) < cfg_min_sol_reserve) =>
            state = "PAUSED_SOL_RESERVE" /\ tick.pc = "idle"
    /\ (RanBody /\ tick.polled = EnginePairs /\ tick.valid # EnginePairs) =>
            state = "PAUSED_PRICE_FEED" /\ tick.pc = "idle"

\* a trade is in progress in a tick that passed the three gates
C13_Witness ==
    /\ InTrade
    /\ tick.started_state = "RUNNING"
    /\ tick.balance = Some(cfg_min_sol_reserve)
    /\ tick.valid = EnginePairs

\* the last tick is over
TickOver == tick.pc = "idle" /\ tick.started_state # "None"

\* C14: a tick that starts in PAUSED_PRICE_FEED polls the prices, and when
\* it ends with a fresh valid price for every pair the engine is RUNNING
\* again; the pause clears in no other way.
C14_PriceFeedPauseClears ==
    /\ tick.started_state = "PAUSED_PRICE_FEED" =>
            /\ ~tick.skipped
            /\ (TickOver /\ tick.valid = EnginePairs) => state = "RUNNING"
    /\ (tick.started_state = "PAUSED_PRICE_FEED" /\ state = "RUNNING") =>
            tick.valid = EnginePairs

\* C15: a tick that starts in PAUSED_SOL_RESERVE checks the balance, and
\* when the balance is >= min_sol_reserve the engine is RUNNING again and the
\* tick goes on to trade.
C15_SolReservePauseRecovers ==
    tick.started_state = "PAUSED_SOL_RESERVE" =>
        /\ ~tick.skipped
        /\ (tick.balance_fetched /\ Val(tick.balance) >= cfg_min_sol_reserve) =>
                state = "RUNNING"

\* C16: once max_consecutive_errors executions in a row have failed, the
\* tick that ran to its end leaves the engine in PAUSED_EXEC_ERRORS, and no
\* trade is dispatched while the counter is at or above the maximum.
C16_PauseAfterConsecutiveErrors ==
    /\ (TickOver /\ RanBody /\ tick.valid = EnginePairs
          /\ consecutive_errors >= max_consecutive_errors) =>
            state = "PAUSED_EXEC_ERRORS"
    /\ InTrade => consecutive_errors < max_consecutive_errors

\* callers of tick that are inside the tick body
InBody == {t \in Tasks : tasks[t] = "body"}

\* C17: ticks do not overlap: at most one caller of tick is inside the body
\* (reserve check, price update, exits, entries) at any time, and it holds
\* the tick lock.
C17_TicksDoNotOverlap ==
    /\ Cardinality(InBody) <= 1
    /\ \A t \in InBody : tick_lock = t
    /\ tick.pc # "idle" => InBody # {}

\* a second caller waits for the lock while a tick is executing a trade
C17_Witness ==
    /\ InTrade
    /\ \E t \in Tasks : tasks[t] = "waiting"

----------------------------------------------------------------------------
(* Properties of flatten_all *)

\* the last finished call was flatten_all (it returned or raised)
FlattenFinished == call.op = "idle" /\ result.op = "flatten_all"

\* exit() returned a TradeResult for the pair p during the last flatten_all
Exited(p) == \E k \in 1..Len(result.results) : result.results[k].pair = p

\* p holds a position that flatten_all has to exit
Flattenable(p) ==
    /\ pairState[p].position_state \in {"OPEN", "EXIT_ONLY"}
    /\ pairState[p].inflight_sell_signature = None

\* the step calls exit for a pair whose state allows an exit (a position is
\* held, no SELL is inflight, no sell cooldown is running)
ExitDue(p) ==
    /\ Invoked("exit", p)
    /\ pairState[p].position_state \in {"OPEN", "EXIT_ONLY"}
    /\ pairState[p].inflight_sell_signature = None
    /\ ~is_sell_in_cooldown(pairState[p], now)

\* C19: while the global exit_only_mode is set (flatten_all sets it), no BUY
\* is in progress and every enter is turned away with "exit_only_mode"
\* without submitting anything, while an exit of a held position is let
\* through to the SELL ladder.
C19_ExitOnlyBlocksEntriesNotExits ==
    /\ [](exit_only_mode => call.op # "enter")
    /\ [][\A p \in Pairs :
            /\ (exit_only_mode /\ Invoked("enter", p)) =>
                    (Rejected /\ result'.error = "exit_only_mode")
            /\ (exit_only_mode /\ ExitDue(p)) =>
                    (call'.op = "exit" /\ call'.pair = p)]_vars

\* C20: when flatten_all is over, every pair that held a position and had no
\* SELL inflight has been exited, the SOL pair after all the others and
\* unless the native balance was <= min_sol_reserve, in which case it was
\* skipped; a pair whose inflight_sell_signature is set has not been exited.
C20_FlattenExitsAllSolLast ==
    FlattenFinished =>
        /\ \A p \in DOMAIN pairState :
              (Flattenable(p) /\ ~startswith_SOL(p)) => Exited(p)
        /\ \A p \in DOMAIN pairState :
              (Flattenable(p) /\ startswith_SOL(p)) =>
                  \/ /\ result.sol_exit = "skipped_reserve"
                     /\ Val(result.sol_balance) <= min_sol_reserve
                     /\ ~Exited(p)
                  \/ /\ Exited(p)
                     /\ result.sol_balance # None
                     /\ Val(result.sol_balance) > min_sol_reserve
        /\ \A k \in 1..Len(result.results) :
              startswith_SOL(result.results[k].pair) => k = Len(result.results)
        /\ \A p \in DOMAIN pairState :
              pairState[p].inflight_sell_signature # None => ~Exited(p)

\* an exit of the pair p is under way or was carried out in the step
ExitAttempted(p) ==
    \/ tick.dispatch.action = "EXIT" /\ tick.dispatch.pair = p
    \/ tick.trade.action = "EXIT" /\ tick.trade.pair = p
    \/ \A k \in 1..Len(positions) : positions[k] # p

\* C21: shutdown leaves the engine STOPPED, and it attempts an exit for every
\* pair that holds an open position when it is called.
C21_ShutdownFlattens ==
    /\ [][(state # "STOPPED" /\ state' = "STOPPED") =>
              \A k \in 1..Len(positions) : ExitAttempted(positions[k])']_vars
    /\ [][state = "STOPPED" => state' = "STOPPED"]_vars

\* what a filled trade does to the strategy's positions
StrategyUpdate(action, pair, pos) ==
    IF action = "ENTRY" THEN open_position(pos, pair) ELSE close_position(pos, pair)

\* the step is a dry-run execution of a trade
DryRunTrade ==
    /\ dry_run
    /\ tick'.dispatch # tick.dispatch
    /\ tick'.dispatch.action # "None"

\* the step ends a live execution whose quote, swap build and transaction
\* all succeeded
LiveTradeFilled ==
    /\ ~dry_run
    /\ tick.pc = "confirm"
    /\ positions' # positions \/ tick'.tx_status = "SUCCESS"

\* C22: a dry run advances the engine like a live run whose executions all
\* succeed: a dry-run execution and a filled live execution leave the same
\* positions, a zero error counter, the same engine state and no inflight
\* flag; the dry run never reaches a quote, a swap build or a submission.
C22_DryRunMatchesLiveSuccess ==
    /\ [](dry_run => /\ ~InTrade
                     /\ consecutive_errors = 0
                     /\ \A p \in EnginePairs : ~pair_states[p].inflight)
    /\ [][DryRunTrade =>
            /\ positions' = StrategyUpdate(tick'.dispatch.action, tick'.dispatch.pair,
                                           positions)
            /\ consecutive_errors' = 0
            /\ state' = state
            /\ \A p \in EnginePairs : ~pair_states'[p].inflight]_vars
    /\ [][LiveTradeFilled =>
            /\ positions' = StrategyUpdate(tick.trade.action, tick.trade.pair, positions)
            /\ positions' # positions
            /\ consecutive_errors' = 0
            /\ state' = state
            /\ \A p \in EnginePairs : ~pair_states'[p].inflight]_vars

\* a dry run that has opened a position and closed it again
C22_Witness ==
    /\ dry_run
    /\ tick.dispatch.action = "EXIT"
    /\ \A k \in 1..Len(positions) : positions[k] # tick.dispatch.pair

\* the conditions under which an entry on a pair is turned away
EnterBlocked(s, eom, t) ==
    \/ eom
    \/ s.position_state \in {"OPEN", "EXIT_ONLY"}
    \/ s.inflight_buy_signature # None
    \/ (s.buy_cooldown_until # None /\ Val(s.buy_cooldown_until) > t)

\* C24: can_enter returns false when exit_only_mode is set, the pair is OPEN
\* or EXIT_ONLY, a buy signature is inflight or the buy cooldown has not
\* passed, and (true, None) in every other state.
C24_CanEnter ==
    result.op = "can_enter" =>
        IF EnterBlocked(pairState[result.pair], exit_only_mode, now)
        THEN result.outcome = "FALSE" /\ result.error # "None"
        ELSE result.outcome = "TRUE" /\ result.error = "None"

\* can_enter turned an entry away for the buy cooldown alone
C24_Witness ==
    /\ result.op = "can_enter"
    /\ result.outcome = "FALSE"
    /\ result.error = "buy_cooldown_until"

\* the conditions under which an exit on a pair is turned away
ExitBlocked(s, t) ==
    \/ s.position_state = "FLAT"
    \/ s.inflight_sell_signature # None
    \/ (s.sell_cooldown_until # None /\ Val(s.sell_cooldown_until) > t)

\* C25: can_exit returns false when the pair is FLAT, a sell signature is
\* inflight or the sell cooldown has not passed; for an OPEN or EXIT_ONLY
\* pair with neither it returns (true, None); it never raises.
C25_CanExit ==
    result.op = "can_exit" =>
        /\ result.outcome # "RAISED"
        /\ IF ExitBlocked(pairState[result.pair], now)
           THEN result.outcome = "FALSE" /\ result.error # "None"
           ELSE result.outcome = "TRUE" /\ result.error = "None"

\* the step is the return of the ladder for a quote over the impact limit
PriceImpactReturn ==
    /\ call.pc = "quote"
    /\ call'.op = "idle"
    /\ result'.error = "price_impact"

\* C26: a quote whose price impact exceeds max_price_impact_bps ends the
\* intent at once with FAILURE: the attempt never goes on to the swap build
\* or the submission with such a quote, the return creates no InflightIntent
\* and sends nothing, leaves the side's inflight marker unset, and reports
\* the attempt it happened in (no further attempt is made).
C26_PriceImpactGate ==
    /\ [](call.pc \in {"swap", "submit", "confirm", "reconcile"} =>
            call.price_impact_bps <= max_price_impact_bps)
    /\ [][PriceImpactReturn =>
            /\ result'.outcome = "FAILURE"
            /\ result'.attempt_number = call.attempt
            /\ result'.runs = call.runs + 1
            /\ intents' = intents
            /\ chain' = chain
            /\ Marker(pairState'[call.pair], call.side) = None
            /\ call' = IdleCall]_vars

\* the second attempt of an entry met a quote over the limit, after the
\* first attempt's transaction had been sent and had failed
C26_Witness ==
    /\ result.op = "enter"
    /\ result.outcome = "FAILURE"
    /\ result.error = "price_impact"
    /\ result.attempt_number = 2
    /\ IntentsOf(intents, result.cid) # {}

\* the step calls exit for a pair that a successful enter opened and that
\* nothing keeps from exiting
RoundTripExit(p) ==
    /\ Invoked("exit", p)
    /\ pairState[p].position_state = "OPEN"
    /\ pairState[p].entry_price # None /\ pairState[p].size_base # None
    /\ ~ExitBlocked(pairState[p], now)

\* the step ends an exit call for the pair p whose SELL ladder ran
ExitEnds(p) ==
    /\ call.op = "exit" /\ call.pair = p
    /\ call'.op = "idle"

\* C23: round trip.  The exit of a pair that a successful enter opened sells
\* the size that was bought, and when it succeeds the pair is back in the
\* state of a new pair: FLAT, no entry price, no size, no inflight
\* signature, both failure counters 0 and both cooldowns cleared.
C23_RoundTrip ==
    /\ [][\A p \in Pairs :
            RoundTripExit(p) =>
                /\ call'.op = "exit" /\ call'.side = "SELL"
                /\ call'.size = Val(pairState[p].size_base)]_vars
    /\ [][\A p \in Pairs :
            (ExitEnds(p) /\ result'.outcome = "SUCCESS") =>
                pairState'[p] = NewPairState]_vars

\* C30: an exit call on a held position ends with the outcome of its SELL,
\* and the pair follows the table: SUCCESS leads to FLAT (from OPEN and from
\* EXIT_ONLY), FAILURE with sell_consecutive_failures >= failure_threshold
\* leads to EXIT_ONLY, anything else leaves the position state alone; a pair
\* becomes EXIT_ONLY in no other way, and no entry runs on an EXIT_ONLY pair.
C30_ExitOnlyTransitions ==
    /\ [](result.op = "exit" => result.outcome \in {"SUCCESS", "FAILURE", "UNKNOWN"})
    /\ [][\A p \in Pairs :
            ExitEnds(p) =>
                pairState'[p].position_state =
                    IF result'.outcome = "SUCCESS" THEN "FLAT"
                    ELSE IF /\ result'.outcome = "FAILURE"
                            /\ pairState'[p].sell_consecutive_failures >= failure_threshold
                         THEN "EXIT_ONLY"
                    ELSE pairState[p].position_state]_vars
    /\ [][\A p \in Pairs :
            (pairState[p].position_state # "EXIT_ONLY"
                /\ pairState'[p].position_state = "EXIT_ONLY") =>
                    /\ ExitEnds(p)
                    /\ pairState[p].position_state = "OPEN"
                    /\ result'.outcome = "FAILURE"]_vars
    /\ [](\A p \in Pairs :
            pairState[p].position_state = "EXIT_ONLY" =>
                /\ ~(call.op = "enter" /\ call.pair = p)
                /\ ~can_enter(pairState[p], exit_only_mode, now).ok)

\* the step leaves _wait_for_confirmation
WaitEnds == call.pc = "confirm" /\ call' # call

\* C27: with confirm_timeout = 0 the wait for a confirmation ends at once in
\* TIMEOUT_UNKNOWN: no signature status poll decides the outcome of a
\* submission, every submission goes on to the reconcile step.
C27_ZeroTimeoutIsUnknown ==
    [][(confirm_timeout = 0 /\ WaitEnds) =>
            /\ call'.pc = "reconcile"
            /\ intents'[CurrentSig].outcome = "None"]_vars

\* the tick body is in its exits loop, in its entries loop or in a trade
InTradingPasses == tick.pc \in {"exits", "entries"} \/ InTrade

\* C28: a tick reaches its exits and entries passes only out of a
\* resolve-unknown pass, in which the signatures of earlier submissions
\* whose outcome stayed open are polled.
C28_ResolveBeforeTrades ==
    [][(~InTradingPasses /\ InTradingPasses') => tick.pc = "resolve_unknown"]_vars

\* the pair's marker of the side is set while no call is running: it was
\* left behind by a call whose outcome stayed open
Preserved(p, side) == call.op = "idle" /\ Marker(pairState[p], side) # None

\* C29: every preserved inflight marker is eventually cleared when the
\* resolve passes keep running, whether or not the transaction is ever found
\* on chain.
C29_InflightEventuallyResolved ==
    \A p \in Pairs :
        /\ Preserved(p, "BUY") ~> (Marker(pairState[p], "BUY") = None)
        /\ Preserved(p, "SELL") ~> (Marker(pairState[p], "SELL") = None)

----------------------------------------------------------------------------
(* Tick engine after a confirmation timeout.  The engine keeps nothing of   *)
(* a signature once execute returned, so the state after the tick in which  *)
(* a trade timed out is written down as the initial state: whatever is      *)
(* submitted from there on is submitted with that signature unresolved.     *)

TimedOutPair == cfg_pairs[1]

\* the tick record as the tick that timed out leaves it
TickAfterTimeout ==
    [IdleTick EXCEPT !.started_state = "RUNNING",
                     !.balance_fetched = TRUE, !.balance = Some(cfg_min_sol_reserve),
                     !.polled = EnginePairs, !.valid = EnginePairs]

\* the prices the tick traded on, confirm_timeout_seconds later
PricesAfterTimeout ==
    Older([p \in EnginePairs |->
              Some(PricePoint(IF p = "SOL/USDC" THEN 2000000 ELSE 500, 0))],
          confirm_timeout_seconds)

\* the engine after a tick in which the transaction of TimedOutPair got a
\* signature and execute returned TxResult.TIMEOUT: a BUY (no position) or
\* a SELL (the position is still held); _execute_entry / _execute_exit
\* counted one error and cleared the inflight flag
RetryInit ==
    /\ pairState = [p \in Pairs |-> NewPairState]
    /\ exit_only_mode = FALSE
    /\ call = IdleCall
    /\ result = NoResult
    /\ intents = <<>>
    /\ chain = <<>>
    /\ now = 0
    /\ deployed = "engine"
    /\ confirm_timeout = default_confirm_timeout
    /\ ServiceInit
    /\ state = "RUNNING"
    /\ consecutive_errors = 1
    /\ tick_lock = 0
    /\ tasks = [t \in Tasks |-> "idle"]
    /\ tick = TickAfterTimeout
    /\ pair_states = [p \in EnginePairs |-> NewEnginePairState]
    /\ prices = PricesAfterTimeout
    /\ cache = PricesAfterTimeout
    /\ positions \in {<<>>, <<TimedOutPair>>}
    /\ dry_run = FALSE

RetryNext ==
    \/ \E t \in Tasks, d \in Durations : TickBegin(t, d)
    \/ \E t \in Tasks : TickWait(t)
    \/ \E bal \in SolBalances, d \in Durations : CheckSolReserve(bal, d)
    \/ \E helius \in FetchResults, jupiter \in FetchResults, d \in Durations :
          UpdatePrice(helius, jupiter, d)
    \/ \E exit_reason \in BOOLEAN : ExitStep(exit_reason)
    \/ \E signal \in {"LONG", "FLAT"} : EntryStep(signal)
    \/ \E ok \in BOOLEAN, d \in Durations : TradeQuote(ok, d)
    \/ \E ok \in BOOLEAN, d \in Durations : TradeSwap(ok, d)
    \/ \E out \in SendOutcomes, d \in Durations : TradeSend(out, d)
    \/ \E st \in SignatureStatuses, d \in Durations : TradePoll(st, d)
    \/ \E error_msg \in ErrorMessages, d \in Durations : TradePollError(error_msg, d)
    \/ TradeTimeout
    \/ shutdown

RetrySpec == RetryInit /\ [][RetryNext]_vars

\* the step at which send_transaction hands a transaction of pair p to the
\* network (TransactionExecutor.execute, line 836)
Submits(p) ==
    /\ tick.pc = "send"
    /\ tick.trade.pair = p
    /\ tick'.pc = "confirm"

\* C31: once a transaction of a pair obtained a signature and its
\* confirmation timed out (TxResult.TIMEOUT), the engine submits no new
\* transaction for that pair, in this tick or a later one, while the outcome
\* of that signature is unresolved.  (Under RetrySpec the signature of
\* TimedOutPair is unresolved from the initial state on: no step of the engine
\* polls a signature after execute returned.)
C31_NoRetryWhileUnknown == [][~Submits(TimedOutPair)]_vars

----------------------------------------------------------------------------
(* Tick engine: a failed trade and its siblings *)

\* the SELL of pair a failed earlier in the running tick
SellFailed(a) ==
    \E k \in 1..Len(tick.trades) : tick.trades[k] = TradeRecord("EXIT", a, FALSE)

\* the entries loop stands at pair q, and nothing but the signal decides
\* whether q is bought
EntryReady(q) ==
    /\ deployed = "engine"
    /\ tick.pc = "entries"
    /\ cfg_pairs[tick.i] = q
    /\ ~pair_states[q].inflight
    /\ strategy_can_enter(q, positions)
    /\ prices[q] # None
    /\ consecutive_errors < MaxErrors

\* C32: a SELL that fails is recorded as an unsuccessful trade of its own
\* in result["trades"], the tick goes on in its loops with the lock held and
\* the engine state unchanged, and a pair with a LONG signal that comes after
\* a failed SELL of another pair in the same tick is still bought.
C32_FailureDoesNotAbortSiblings ==
    /\ [][(InTrade /\ tick.trade.action = "EXIT" /\ ~InTrade' /\ positions' = positions) =>
               /\ tick'.trades = Append(tick.trades, TradeRecord("EXIT", tick.trade.pair, FALSE))
               /\ tick'.pc \in {"exits", "entries"}
               /\ tick_lock' = tick_lock
               /\ state' = state]_vars
    /\ [](\A q \in EnginePairs :
              (EntryReady(q) /\ \E a \in EnginePairs \ {q} : SellFailed(a)) =>
                  ENABLED (EntryStep("LONG") /\ tick'.trade = [action |-> "ENTRY", pair |-> q]))

\* the BUY of a pair is in execution in a tick in which the SELL of the other
\* pair failed
C32_Witness ==
    /\ InTrade
    /\ tick.trade.action = "ENTRY"
    /\ \E a \in EnginePairs \ {tick.trade.pair} : SellFailed(a)

----------------------------------------------------------------------------
(* One-sided cooldown *)

\* the fields of one side of a pair's state: failure counter, cooldown, marker
SideFields(s, side) ==
    IF side = "BUY"
    THEN <<s.buy_consecutive_failures, s.buy_cooldown_until, s.inflight_buy_signature>>
    ELSE <<s.sell_consecutive_failures, s.sell_cooldown_until, s.inflight_sell_signature>>

\* the pair's state with another buy cooldown and buy failure counter
WithBuyCooldown(s, until, failures) ==
    [s EXCEPT !.buy_cooldown_until = until, !.buy_consecutive_failures = failures]

----------------------------------------------------------------------------
(* OrderStateMachine: an order in any status (as the property test makes   *)
(* it) and the calls on the state machine                                  *)

OrderFsmInit ==
    /\ pairState = [p \in Pairs |-> NewPairState]
    /\ exit_only_mode = FALSE
    /\ call = IdleCall
    /\ result = NoResult
    /\ intents = <<>>
    /\ chain = <<>>
    /\ now = 0
    /\ deployed = "adapter"
    /\ confirm_timeout = default_confirm_timeout
    /\ state = "RUNNING"
    /\ consecutive_errors = 0
    /\ tick_lock = 0
    /\ tasks = [t \in Tasks |-> "idle"]
    /\ tick = IdleTick
    /\ pair_states = [p \in EnginePairs |-> NewEnginePairState]
    /\ prices = [p \in EnginePairs |-> None]
    /\ cache = [p \in EnginePairs |-> None]
    /\ positions = <<>>
    /\ dry_run = FALSE
    /\ orders \in [OrderIds -> {None} \cup {Some(st) : st \in OrderStatus}]
    /\ fsm_result = NoFsmResult
    /\ hybrid = NewHybrid
    /\ price_oracle = NewOracle

OrderFsmNext ==
    \/ \E id \in OrderIds : add_order(id, "NEW")
    \/ \E id \in OrderIds, to_state \in OrderStatus : CallCanTransition(id, to_state)
    \/ \E id \in OrderIds, to_state \in OrderStatus : transition(id, to_state)

OrderFsmSpec == OrderFsmInit /\ [][OrderFsmNext]_vars

\* the statuses get_open_orders counts as terminal (order_manager.py, lines 59-64)
TerminalStatuses == {"FILLED", "CANCELED", "REJECTED", "EXPIRED"}

\* a call of transition(id, to_state) ends
TransitionEnds(id, to_state) ==
    /\ fsm_result'.op = "transition"
    /\ fsm_result'.order_id = id
    /\ fsm_result'.to_state = to_state
    /\ <<orders, fsm_result>>' # <<orders, fsm_result>>

\* C34: for every current status and every target, transition(order, target)
\* returns and sets the order's status to target exactly when
\* can_transition(order, target) is true, that is when target is in the allowed
\* set of the current status; otherwise it raises InvalidTransition and leaves
\* the status unchanged.  FILLED, CANCELED, REJECTED and EXPIRED have no
\* outgoing transition.
C34_OrderFsm ==
    /\ [][\A id \in OrderIds, to_state \in OrderStatus :
              TransitionEnds(id, to_state) =>
                  IF can_transition(orders, id, to_state)
                  THEN /\ fsm_result'.outcome = "RETURNED"
                       /\ orders' = [orders EXCEPT ![id] = Some(to_state)]
                  ELSE /\ fsm_result'.outcome = "InvalidTransition"
                       /\ orders' = orders]_vars
    /\ [](\A id \in OrderIds, to_state \in OrderStatus :
              (orders[id] # None /\ Val(orders[id]) \in TerminalStatuses) =>
                  ~can_transition(orders, id, to_state))
    /\ [][\A id \in OrderIds :
              (orders[id] # None /\ Val(orders[id]) \in TerminalStatuses /\
               fsm_result'.op = "transition") => orders'[id] = orders[id]]_vars

\* transition was refused for an order in a terminal status
C34_Witness ==
    /\ fsm_result.op = "transition"
    /\ fsm_result.outcome = "InvalidTransition"
    /\ orders[fsm_result.order_id] # None
    /\ Val(orders[fsm_result.order_id]) \in TerminalStatuses

----------------------------------------------------------------------------
(* HybridMarketDataService over a primary and a fallback adapter *)

HybridInit ==
    /\ pairState = [p \in Pairs |-> NewPairState]
    /\ exit_only_mode = FALSE
    /\ call = IdleCall
    /\ result = NoResult
    /\ intents = <<>>
    /\ chain = <<>>
    /\ now = 0
    /\ deployed = "adapter"
    /\ confirm_timeout = default_confirm_timeout
    /\ state = "RUNNING"
    /\ consecutive_errors = 0
    /\ tick_lock = 0
    /\ tasks = [t \in Tasks |-> "idle"]
    /\ tick = IdleTick
    /\ pair_states = [p \in EnginePairs |-> NewEnginePairState]
    /\ prices = [p \in EnginePairs |-> None]
    /\ cache = [p \in EnginePairs |-> None]
    /\ positions = <<>>
    /\ dry_run = FALSE
    /\ orders = [id \in OrderIds |-> None]
    /\ fsm_result = NoFsmResult
    /\ \E ttl \in CacheTtls, pf \in BOOLEAN, cf \in BOOLEAN :
          hybrid = [NewHybrid EXCEPT !.cache_ttl = ttl, !.polygon_fail = pf,
                                     !.coingecko_fail = cf]
    /\ price_oracle = NewOracle

HybridNext ==
    \/ get_tick
    \/ \E d \in CacheTtls \ {0} : HybridSleep(d)
    \/ \E adapter \in {"polygon", "coingecko"} : HybridAdapterFlips(adapter)

HybridSpec == HybridInit /\ [][HybridNext]_vars

\* a get_tick call that does not answer from the cache
FetchingGetTick == hybrid'.gets = hybrid.gets + 1 /\ ~TickCacheHit(hybrid)

\* C35: get_tick prefers the primary adapter (the first constructor
\* argument): when the primary succeeds its tick is returned and the fallback
\* is not called; the fallback is called, and its tick returned, only after
\* the primary raised an error.
C35_PrimaryPreferred ==
    [][FetchingGetTick =>
          /\ hybrid'.polygon_calls = hybrid.polygon_calls + 1
          /\ IF ~hybrid.polygon_fail
             THEN /\ hybrid'.returned = "polygon"
                  /\ hybrid'.coingecko_calls = hybrid.coingecko_calls
             ELSE /\ hybrid'.coingecko_calls = hybrid.coingecko_calls + 1
                  /\ ~hybrid.coingecko_fail => hybrid'.returned = "coingecko"]_vars

----------------------------------------------------------------------------
(* Tick engine: a tick triggered while another one runs *)

\* C36: a tick triggered while the previous tick is still running is skipped:
\* the caller that found the lock taken never runs the tick body (reserve
\* check, price update, exits, entries) once the lock is free.
C36_OverlappingTickSkipped ==
    [][\A t \in Tasks : tasks[t] = "waiting" => tasks'[t] # "body"]_vars

----------------------------------------------------------------------------
(* PriceOracle: get_price calls with time passing between them *)

OracleInit ==
    /\ pairState = [p \in Pairs |-> NewPairState]
    /\ exit_only_mode = FALSE
    /\ call = IdleCall
    /\ result = NoResult
    /\ intents = <<>>
    /\ chain = <<>>
    /\ now = 0
    /\ deployed = "engine"
    /\ confirm_timeout = default_confirm_timeout
    /\ state = "RUNNING"
    /\ consecutive_errors = 0
    /\ tick_lock = 0
    /\ tasks = [t \in Tasks |-> "idle"]
    /\ tick = IdleTick
    /\ pair_states = [p \in EnginePairs |-> NewEnginePairState]
    /\ prices = [p \in EnginePairs |-> None]
    /\ cache = [p \in EnginePairs |-> None]
    /\ positions = <<>>
    /\ dry_run = FALSE
    /\ orders = [id \in OrderIds |-> None]
    /\ fsm_result = NoFsmResult
    /\ hybrid = NewHybrid
    /\ \E key \in BOOLEAN : price_oracle = [NewOracle EXCEPT !.helius_api_key = key]

OracleNext ==
    \/ \E helius \in SourceAnswers, hd \in Durations,
          jupiter \in SourceAnswers, jd \in Durations :
          OracleGetPrice(helius, hd, jupiter, jd)
    \/ \E d \in {price_ttl_seconds, backoff_seconds} : OracleSleep(d)

OracleSpec == OracleInit /\ [][OracleNext]_vars

\* a get_price call returns
GetPriceReturns == price_oracle'.gets = price_oracle.gets + 1

\* the cache entry is valid when the call starts
CacheValid == price_oracle.cache # None /\ is_valid(Val(price_oracle.cache), price_ttl_seconds)

\* C37: a source that answered HTTP 429 gets its deadline set backoff_seconds
\* after the answer and is not called again before the clock has reached the
\* deadline; Jupiter, the secondary source, is called only when the cache is
\* not valid and Helius is in backoff, not configured, or was just asked and
\* gave no validated price; with a valid cache entry the entry is returned
\* and no source is called.
C37_PerSourceBackoff ==
    [][GetPriceReturns =>
          /\ price_oracle'.helius # "not_called" =>
                price_oracle.time >= price_oracle.helius_backoff_until
          /\ price_oracle'.jupiter # "not_called" =>
                price_oracle.time >= price_oracle.jupiter_backoff_until
          /\ price_oracle'.helius = "429" =>
                price_oracle'.helius_backoff_until >= price_oracle.time + backoff_seconds
          /\ price_oracle'.jupiter = "429" =>
                price_oracle'.jupiter_backoff_until >= price_oracle.time + backoff_seconds
          /\ price_oracle'.jupiter # "not_called" =>
                /\ ~CacheValid
                /\ \/ price_oracle.time < price_oracle.helius_backoff_until
                   \/ ~price_oracle.helius_api_key
                   \/ price_oracle'.helius \in {"429", "failed"}
          /\ CacheValid =>
                /\ price_oracle'.returned = "cached"
                /\ price_oracle'.helius = "not_called"
                /\ price_oracle'.jupiter = "not_called"
                /\ price_oracle'.cache = price_oracle.cache]_vars

\* Helius answered 429 in an earlier call; in this call, inside the backoff
\* window and without a valid cache entry, Helius was not asked and Jupiter
\* delivered the price
C37_Witness ==
    /\ price_oracle.helius_api_key
    /\ price_oracle.helius_backoff_until >= backoff_seconds
    /\ price_oracle.time < price_oracle.helius_backoff_until
    /\ price_oracle.helius = "not_called"
    /\ price_oracle.jupiter = "price"
    /\ price_oracle.returned = "jupiter"

----------------------------------------------------------------------------
(* The "pending" sentinel and the resolve passes *)

\* no enter / exit of the pair is running
NoLadderOn(p) == ~(call.op \in {"enter", "exit"} /\ call.pair = p)

\* C38: a resolve pass returns a pair state whose marker of the side is
\* "pending" unchanged, whatever the chain holds and whether or not the node
\* answers; can_enter (BUY) and can_exit (SELL) do not let such a side pass;
\* and outside an enter / exit of the pair no step of the adapter, the resolve
\* passes of flatten_all included, takes a "pending" marker away.
C38_PendingNeverResolved ==
    /\ [](\A p \in Pairs, rpc_ok \in BOOLEAN :
              LET buy == SetMarker(pairState[p], "BUY", Pending)
                  sell == SetMarker(pairState[p], "SELL", Pending)
              IN  /\ Marker(ResolveEntry(buy, chain, rpc_ok), "BUY") = Pending
                  /\ ResolveEntry(buy, chain, rpc_ok).position_state = buy.position_state
                  /\ ~can_enter(buy, exit_only_mode, now).ok
                  /\ ResolveExit(sell, chain, rpc_ok) = sell
                  /\ ~can_exit(sell, now).ok)
    /\ [][\A p \in Pairs, side \in {"BUY", "SELL"} :
              (NoLadderOn(p) /\ Marker(pairState[p], side) = Pending) =>
                  Marker(pairState'[p], side) = Pending]_vars

\* an entry left "pending" behind although its transaction was sent and has
\* been confirmed since, and resolve_unknown_entries has run over it
C38_Witness ==
    \E p \in Pairs :
        /\ call.op = "idle"
        /\ result.op = "resolve_unknown_entries"
        /\ Marker(pairState[p], "BUY") = Pending
        /\ pairState[p].position_state = "FLAT"
        /\ \E i \in 1..Len(chain) :
              /\ chain[i].pair = p
              /\ chain[i].side = "BUY"
              /\ chain[i].level \in {"confirmed", "finalized"}
              /\ ~chain[i].err

----------------------------------------------------------------------------
(* The resolve passes over a preserved signature.  The pair holds the       *)
(* signature of a transaction that was sent, as line 679 of                 *)
(* execute_with_ladder stores it (BUY on a FLAT pair, SELL on a held one);  *)
(* the chain has not seen the transaction, or has executed it with or       *)
(* without an error at any confirmation level.                              *)

PreservedSides == {"BUY", "SELL"}

\* the pair's state with the signature of the side's transaction preserved
PreservedState(side) ==
    SetMarker(IF side = "BUY" THEN NewPairState ELSE OpenAfterEntry, side, Some(1))

PreservedInit ==
    /\ \E side \in PreservedSides, level \in Levels, err \in BOOLEAN :
          /\ level = "notfound" => ~err
          /\ pairState = [p \in Pairs |-> PreservedState(side)]
          /\ intents = <<[NewIntent("SOL/USDC", side, 2, 1) EXCEPT !.signature = Some(1)]>>
          /\ chain = <<[NewTx("SOL/USDC", side, 2, 4, TRUE) EXCEPT
                           !.level = level, !.err = err]>>
    /\ exit_only_mode = FALSE
    /\ call = IdleCall
    /\ result = NoResult
    /\ now = 0
    /\ deployed = "adapter"
    /\ confirm_timeout = default_confirm_timeout
    /\ ServiceInit
    /\ state = "RUNNING"
    /\ consecutive_errors = 0
    /\ tick_lock = 0
    /\ tasks = [t \in Tasks |-> "idle"]
    /\ tick = IdleTick
    /\ pair_states = [p \in EnginePairs |-> NewEnginePairState]
    /\ prices = [p \in EnginePairs |-> None]
    /\ cache = [p \in EnginePairs |-> None]
    /\ positions = <<>>
    /\ dry_run = FALSE

PreservedSpec == PreservedInit /\ [][ResolveNext]_vars

\* the transaction whose signature the marker m holds was executed with an error
FailedOnChain(m) == IsRealSig(m) /\ chain[Val(m)].err

----------------------------------------------------------------------------
(* Markers after a call *)

\* enter / exit returned a TradeResult for the pair
ReturnedNormally(op, p) ==
    /\ call.op = "idle"
    /\ result.op = op
    /\ result.pair = p
    /\ result.outcome # "RAISED"

\* C40: when enter (exit) has returned a TradeResult for a pair, the pair's
\* buy (sell) marker is None, and while no call is running no marker holds a
\* real signature.
C40_NoMarkerAfterReturn ==
    \A p \in Pairs :
        /\ ReturnedNormally("enter", p) => Marker(pairState[p], "BUY") = None
        /\ ReturnedNormally("exit", p) => Marker(pairState[p], "SELL") = None
        /\ call.op = "idle" =>
              /\ ~IsRealSig(Marker(pairState[p], "BUY"))
              /\ ~IsRealSig(Marker(pairState[p], "SELL"))

====
